---- MODULE Spec2Model ----
(***************************************************************************)
(* A model of the event-driven refresh core of the nl_weather integration: *)
(* the EDR refresh coordinators (coordinator.py), the MQTT notification    *)
(* listener (notification_service.py) and the precipitation radar camera   *)
(* (camera.py).  Timestamps are modelled as small integers; every `await`  *)
(* of the code is a step boundary, the code between two awaits is one      *)
(* atomic step (asyncio runs one task at a time).                          *)
(***************************************************************************)
EXTENDS Integers, Sequences, FiniteSets, TLC

(***************************************************************************)
(* Bounds of the model.                                                    *)
(***************************************************************************)
MaxVer == 3        \* upstream versions are 1..MaxVer
MaxNotif == 4      \* notifications delivered to the coordinators
MaxMsg == 2        \* messages the broker delivers to the listener
MaxErrors == 1     \* transport errors (MqttError) the broker connection suffers
NCallers == 2      \* tasks that call async_camera_image
MaxCalls == 2      \* calls of async_camera_image
MaxRadar == 1      \* radar notifications handled by _set_latest
MaxTime == 2       \* radar image timestamps are 1..MaxTime
MaxOther == 1      \* WMS requests other than tile fetches (get_capabilities_radar)
MaxLen == 3        \* coverages in the list given to closest_coverage
MaxKm == 3         \* distances of the coverages are 0..MaxKm
MaxHourly == 3     \* entries in the fetched hourly series
MaxHour == 2       \* the hours of the entries are 0..MaxHour
MaxStations == 2   \* coverages in the list given to _prepare_data
MaxDist == 2       \* their distances are 0..MaxDist
MaxStamp == 2      \* their timestamps are 1..MaxStamp
MaxDay == 2         \* utcnow() is in the days 1..MaxDay
MaxOvMsg == 2      \* messages handled by the listener with both coordinators registered
RcSpan == 12       \* CONNECT reason codes are NotAuthorized-RcSpan .. NotAuthorized+RcSpan

(***************************************************************************)
(* Program constants.                                                      *)
(***************************************************************************)
Epoch == 0         \* datetime(1970, 1, 1): the initial _latest_filename_datetime
None == -1         \* Python's None (no data published, no image, no timestamp)
Attempts == 3      \* for _ in range(3)
Permits == 5       \* asyncio.Semaphore(5)
RealtimeWindow == 60   \* ref_time - timedelta(minutes=60)
ForecastWindow == 120  \* ref_time + timedelta(minutes=120)
TickStep == 10     \* time += timedelta(minutes=10)
NotAuthorized == 135   \* if e.rc == 135
ColdMargin == 5    \* timedelta(minutes=5)

Versions == 1 .. MaxVer
Coordinators == {"auto", "manual"}

\* What one call of EDR.get_cube_coverages / EDR.get_location_coverage can do:
\* return coverages, return a collection without a usable coverage, or raise
\* one of the errors of EDR.get.
FetchResults == {"ok", "empty", "NotFoundError", "ServerError", "InvalidRequest", "TokenInvalid"}
Retryable == {"NotFoundError", "ServerError"}

\* The versions [5, 3, 5, 7] of the idempotence example, as 2, 1, 2, 3.
ExampleSeq == <<2, 1, 2, 3>>
OffExample == <<0>>

VARIABLES
    latest,     \* [Coordinators -> Int]: _latest_filename_datetime
    data,       \* [Coordinators -> Int]: the published snapshot (the version it was fetched for, or None)
    cpc,        \* [Coordinators -> position of _async_setup / get_coverage_datetime]
    cver,       \* [Coordinators -> Int]: filename_datetime of the event being handled
    attempt,    \* [Coordinators -> Int]: fetch attempts made for the event being handled
    outcome,    \* [Coordinators -> how the last callback invocation ended]
    warned,     \* [Coordinators -> BOOLEAN]: the last invocation logged the warning
    fres,       \* [Coordinators -> what the last fetch of the invocation did]
    fails,      \* [Coordinators -> Int]: attempts of the invocation that raised NotFoundError or ServerError
    pre,        \* [Coordinators -> [latest, data]] at the start of the last invocation
    seen,       \* [Coordinators -> Seq]: the events delivered, while they follow ExampleSeq with every fetch ok
    nfetch,     \* [Coordinators -> Int]: the fetches made while following ExampleSeq
    notified    \* Int: notifications delivered so far

coordVars == <<latest, data, cpc, cver, attempt, outcome, warned, fres, fails, pre, seen, nfetch, notified>>

VARIABLES
    callbacks,  \* [KnownDatasets -> [identifiers -> callback]]: self._callbacks
    lstate,     \* position of NotificationService.run
    client,     \* Int: clients created by _setup_client so far
    subscribed, \* Int: topics of TOPICS subscribed on the current connection
    inbox,      \* Seq of messages received on the current connection, not yet pulled from c.messages
    arrived,    \* Int: messages the broker has delivered so far
    cur,        \* the last message handle_message was called with
    running,    \* set of callback invocations that have not finished
    launched,   \* Seq of the invocations the last handle_message made
    regAt,      \* the callbacks registered under cur's dataset when its handling started
    curResult,  \* how the last handle_message ended
    errCause,   \* what sent the loop into its last backoff
    errors,     \* Int: MqttErrors so far
    cancelled   \* BOOLEAN: the task of run() was cancelled (disconnect)

listenerVars == <<callbacks, lstate, client, subscribed, inbox, arrived, cur, running,
                  launched, regAt, curResult, errCause, errors, cancelled>>

VARIABLES
    last_image,     \* _last_image: the reference time the cached animation was built for, or None
    last_image_dt,  \* _last_image_dt
    last_modified,  \* _last_modified
    loading,        \* _loading
    kpc,            \* [Callers -> position of async_camera_image]
    ref,            \* [Callers -> ref_time of the __retrieve_radar_image call in flight]
    ret,            \* [Callers -> what the last call returned]
    kres,           \* [Callers -> how the last call ended]
    sleeping,       \* set of timestamps: the _set_latest invocations in their sleep
    calls,          \* Int: calls of async_camera_image so far
    radars,         \* Int: radar notifications so far
    fresh,          \* [Callers -> BOOLEAN]: the call arrived with loading false and a refresh needed
    regens,         \* [Callers -> Int]: __retrieve_radar_image calls made by the call
    peers,          \* [Callers -> set of callers whose fresh call was in flight when the call arrived]
    sawLoading,     \* [Callers -> BOOLEAN]: the value of _loading the call read under the lock
    atWake          \* [Callers -> the artifact cached when the call was woken]

cameraVars == <<last_image, last_image_dt, last_modified, loading, kpc, ref, ret, kres,
                sleeping, calls, radars, fresh, regens, peers, sawLoading, atWake>>

VARIABLES
    ref_time,       \* ref_time of the __retrieve_radar_image call, or None before it
    fetch,          \* Seq of requests: the list `fetch` in the order it was built
    semaphore,      \* Int: the permits WMS._semaphore has left
    waiters,        \* Seq of requests waiting for the semaphore, first in first out
    inflight,       \* set of requests inside `async with self._semaphore`
    radar_images,   \* Seq of <<index in fetch, time>>: the results gather holds so far
    gstate,         \* position of __retrieve_radar_image: idle, pending, returned, raised
    images,         \* Seq of times: the frames of the animation in the order they were encoded
    others,         \* Int: requests other than tile fetches issued so far
    overtaken       \* BOOLEAN: a tile fetch completed before one that precedes it in fetch

tileVars == <<ref_time, fetch, semaphore, waiters, inflight, radar_images, gstate, images,
              others, overtaken>>

VARIABLES
    lastReg         \* [KnownDatasets -> [identifiers -> callback]]: the callback of the latest set_callback call per identifier

regVars == <<lastReg>>

VARIABLES
    ev_filename,        \* event["data"]["filename"]: [prefix, stamp (12 digits), suffix]
    ev_arrival,         \* the time the event arrived, in minutes since the epoch
    ev_variant,         \* the coordinator variant handling the event
    ev_latest,          \* its _latest_filename_datetime, in minutes since the epoch
    ev_stage,           \* position of get_coverage_datetime
    filename_datetime,  \* filename_datetime, in minutes since the epoch, or None
    ev_query            \* the digits of the datetime parameter of the fetch, or <<>>

eventVars == <<ev_filename, ev_arrival, ev_variant, ev_latest, ev_stage, filename_datetime,
               ev_query>>

VARIABLES
    coverages,      \* Seq of coverages: the list closest_coverage is called with
    closest,        \* <<coverage, distance>>: what closest_coverage returned, or None
    cc_stage        \* position of the call: called, returned, ValueError

closestVars == <<coverages, closest, cc_stage>>

VARIABLES
    pl_now,         \* utcnow() at the pruning step, in minutes since the epoch
    pl_fetched,     \* Seq of [k, dateTime]: data["hourly"]["forecast"] as weather() returned it
    pl_stage,       \* position of _async_update_data: fetching, returned, UpdateFailed, raised
    pl_hourly       \* Seq of [k, dateTime]: data["hourly"]["forecast"] of the returned data, or None

pollVars == <<pl_now, pl_fetched, pl_stage, pl_hourly>>

VARIABLES
    tc_connect,     \* what the broker answers to CONNECT: [kind: ok, refused, error; rc: the reason code]
    tc_subscribe,   \* what the broker answers to SUBSCRIBE: "ok" or "error"
    tc_stage,       \* position of test_connection: connecting, subscribing, returned, raised
    tc_result       \* "True" or "False" returned, "TokenInvalid" raised, "pending" before

testVars == <<tc_connect, tc_subscribe, tc_stage, tc_result>>

VARIABLES
    pd_coverages,   \* Seq of [station, km, carries, t]: the coverages _prepare_data is called with
    pd_order,       \* the order sort_coverage_on_distance sorts in
    pd_stage,       \* position of _prepare_data: called, returned, IndexError
    pd_ranges,      \* data["ranges"]: [parameter -> the station its value is of]
    pd_datetime     \* data["datetime"], or None

prepVars == <<pd_coverages, pd_order, pd_stage, pd_ranges, pd_datetime>>

VARIABLES
    cs_now,             \* dt_util.utcnow(): [day, hour, minute, second]
    cs_last_modified,   \* _last_modified of the clock-based camera: [day, hour, minute, second], or None
    cs_stage            \* position of async_camera_image: called, chosen

coldVars == <<cs_now, cs_last_modified, cs_stage>>

VARIABLES
    ov_reg,         \* [Coordinators -> BOOLEAN]: the callback of the coordinator is registered
    ov_latest,      \* [Coordinators -> version]: _latest_filename_datetime
    ov_data,        \* [Coordinators -> version or None]: the published data
    ov_inv,         \* [Coordinators -> [messages -> [pc, v, attempt]]]: the invocations of get_coverage_datetime
    ov_lstate,      \* position of run(): waiting, handling, backoff
    ov_cur,         \* the message handle_message is awaiting the callbacks of
    ov_sent         \* the number of messages handled so far

overlapVars == <<ov_reg, ov_latest, ov_data, ov_inv, ov_lstate, ov_cur, ov_sent>>

vars == <<coordVars, listenerVars, cameraVars, tileVars, regVars, eventVars, closestVars, pollVars, testVars, prepVars, coldVars, overlapVars>>

notRegistry == <<coordVars, cameraVars, tileVars, eventVars, closestVars, pollVars, testVars, prepVars, coldVars, overlapVars>>
notCoord == <<listenerVars, cameraVars, tileVars, regVars, eventVars, closestVars, pollVars, testVars, prepVars, coldVars, overlapVars>>
notListener == <<notRegistry, regVars>>
notCamera == <<coordVars, listenerVars, tileVars, regVars, eventVars, closestVars, pollVars, testVars, prepVars, coldVars, overlapVars>>
notTiles == <<coordVars, listenerVars, cameraVars, regVars, eventVars, closestVars, pollVars, testVars, prepVars, coldVars, overlapVars>>
notEvent == <<coordVars, listenerVars, cameraVars, tileVars, regVars, closestVars, pollVars, testVars, prepVars, coldVars, overlapVars>>
notClosest == <<coordVars, listenerVars, cameraVars, tileVars, regVars, eventVars, pollVars, testVars, prepVars, coldVars, overlapVars>>
notPoll == <<coordVars, listenerVars, cameraVars, tileVars, regVars, eventVars, closestVars, testVars, prepVars, coldVars, overlapVars>>
notTest == <<coordVars, listenerVars, cameraVars, tileVars, regVars, eventVars, closestVars, pollVars, prepVars, coldVars, overlapVars>>
notPrep == <<coordVars, listenerVars, cameraVars, tileVars, regVars, eventVars, closestVars, pollVars, testVars, coldVars, overlapVars>>
notCold == <<coordVars, listenerVars, cameraVars, tileVars, regVars, eventVars, closestVars, pollVars, testVars, prepVars, overlapVars>>
notOverlap == <<coordVars, listenerVars, cameraVars, tileVars, regVars, eventVars, closestVars, pollVars, testVars, prepVars, coldVars>>

(***************************************************************************)
(* Refresh coordinators                                                    *)
(***************************************************************************)

\* The mutation of the skip test used for C1: both variants compare with <.
AlreadyGotStrict(c, v, last) == v < last

\* if filename_datetime < self._latest_filename_datetime   (Auto)
\* if filename_datetime <= self._latest_filename_datetime  (Manual)
AlreadyGot(c, v, last) ==
    IF c = "auto" THEN v < last ELSE v <= last

CoordInit ==
    /\ latest = [c \in Coordinators |-> Epoch]
    /\ data = [c \in Coordinators |-> None]
    /\ cpc = [c \in Coordinators |-> "new"]
    /\ cver = [c \in Coordinators |-> Epoch]
    /\ attempt = [c \in Coordinators |-> 0]
    /\ outcome = [c \in Coordinators |-> "none"]
    /\ warned = [c \in Coordinators |-> FALSE]
    /\ fres = [c \in Coordinators |-> "none"]
    /\ fails = [c \in Coordinators |-> 0]
    /\ pre = [c \in Coordinators |-> [latest |-> Epoch, data |-> None]]
    /\ seen = [c \in Coordinators |-> <<>>]
    /\ nfetch = [c \in Coordinators |-> 0]
    /\ notified = 0

\* _async_setup, first await: self._latest_filename_datetime = await get_latest_datetime()
SetupLatest(c) ==
    /\ cpc[c] = "new"
    /\ \E l \in Versions :
        /\ latest' = [latest EXCEPT ![c] = l]
        /\ seen' = [seen EXCEPT ![c] = IF l < ExampleSeq[1] THEN <<>> ELSE OffExample]
    /\ cpc' = [cpc EXCEPT ![c] = "setupfetch"]
    /\ UNCHANGED <<data, cver, attempt, outcome, warned, fres, fails, pre, nfetch, notified>>
    /\ UNCHANGED notCoord

\* _async_setup, the initial fetch and the registration of the callback.
\* Auto: any error, and the IndexError of _prepare_data on an empty list,
\* leaves _async_setup before super()._async_setup() registers the callback.
\* Manual: NotFoundError is caught and None is published.
SetupFetch(c) ==
    /\ cpc[c] = "setupfetch"
    /\ \E r \in FetchResults :
        \/ /\ r = "ok"
           /\ data' = [data EXCEPT ![c] = latest[c]]
           /\ cpc' = [cpc EXCEPT ![c] = "idle"]
        \/ /\ r = "NotFoundError"
           /\ c = "manual"
           /\ data' = [data EXCEPT ![c] = None]
           /\ cpc' = [cpc EXCEPT ![c] = "idle"]
        \/ /\ r # "ok"
           /\ ~(r = "NotFoundError" /\ c = "manual")
           /\ cpc' = [cpc EXCEPT ![c] = "failed"]
           /\ UNCHANGED data
    /\ UNCHANGED <<latest, cver, attempt, outcome, warned, fres, fails, pre, seen, nfetch, notified>>
    /\ UNCHANGED notCoord

\* The mutation used for C26: the loop body fetches first and sleeps after
\* a failed attempt only.
LoopTopFetches(c) == "fetch"

\* The top of the body of `for _ in range(3)`: await asyncio.sleep(15)
\* comes before the fetch, in the first iteration as in the later ones.
LoopTop(c) == "sleep"

\* An event following the example: the next element of ExampleSeq.
Follows(c, v) ==
    /\ seen[c] # OffExample
    /\ Len(seen[c]) < Len(ExampleSeq)
    /\ v = ExampleSeq[Len(seen[c]) + 1]

\* get_coverage_datetime up to its first await: parse the version of the
\* event, return at once when it was already got, else go to the first sleep.
Notify(c) ==
    /\ cpc[c] \in {"idle", "done"}
    /\ notified < MaxNotif
    /\ notified' = notified + 1
    /\ \E v \in Versions :
        /\ cver' = [cver EXCEPT ![c] = v]
        /\ pre' = [pre EXCEPT ![c] = [latest |-> latest[c], data |-> data[c]]]
        /\ attempt' = [attempt EXCEPT ![c] = 0]
        /\ warned' = [warned EXCEPT ![c] = FALSE]
        /\ fres' = [fres EXCEPT ![c] = "none"]
        /\ fails' = [fails EXCEPT ![c] = 0]
        /\ seen' = [seen EXCEPT ![c] = IF Follows(c, v) THEN Append(@, v) ELSE OffExample]
        /\ IF AlreadyGot(c, v, latest[c])
              THEN /\ cpc' = [cpc EXCEPT ![c] = "done"]
                   /\ outcome' = [outcome EXCEPT ![c] = "skipped"]
              ELSE /\ cpc' = [cpc EXCEPT ![c] = LoopTop(c)]
                   /\ outcome' = [outcome EXCEPT ![c] = "none"]
        /\ nfetch' = [nfetch EXCEPT ![c] = IF Follows(c, v) THEN @ ELSE 0]
    /\ UNCHANGED <<latest, data>>
    /\ UNCHANGED notCoord

\* await asyncio.sleep(15) returns; the fetch of this attempt is issued.
SleepDone(c) ==
    /\ cpc[c] = "sleep"
    /\ cpc' = [cpc EXCEPT ![c] = "fetch"]
    /\ attempt' = [attempt EXCEPT ![c] = @ + 1]
    /\ nfetch' = [nfetch EXCEPT ![c] = IF seen[c] # OffExample THEN @ + 1 ELSE @]
    /\ UNCHANGED <<latest, data, cver, outcome, warned, fres, fails, pre, seen, notified>>
    /\ UNCHANGED notCoord

\* The mutation used for C4: the version is recorded before the fetch has
\* returned, so a failed attempt advances it too.
RecordsVersionEarly(c, r) == TRUE

\* self._latest_filename_datetime = filename_datetime is reached: the fetch
\* returned.  get_cube_coverages returns the (possibly empty) filtered list;
\* get_location_coverage raises IndexError on coverages[0] of an empty list.
RecordsVersion(c, r) ==
    \/ r = "ok"
    \/ r = "empty" /\ c = "auto"

\* The mutation used for C3: every error of the fetch is retried.
RetriedAll(r) == r \notin {"ok", "empty"}

\* except (NotFoundError, ServerError): continue
Retried(r) == r \in Retryable

\* The mutation used for C19: an attempt that raised NotFoundError or
\* ServerError publishes an empty snapshot.
PublishedOrCleared(c, r, old) ==
    IF r = "ok" THEN cver[c] ELSE IF r \in Retryable THEN None ELSE old

\* The snapshot after an attempt with result r: async_set_updated_data is
\* reached only when the fetch returned and _prepare_data did not raise.
Published(c, r, old) == IF r = "ok" THEN cver[c] ELSE old

\* The mutation used for C25: the version is assigned to the attribute of
\* the class, which every coordinator without a version of its own reads.
AssignLatestOnClass(tbl, c, v) == [d \in DOMAIN tbl |-> v]

\* self._latest_filename_datetime = filename_datetime: the assignment makes
\* an attribute of the instance; the class attribute stays the epoch.
AssignLatest(tbl, c, v) == [tbl EXCEPT ![c] = v]

\* The fetch of the current attempt returns or raises.
FetchDone(c) ==
    /\ cpc[c] = "fetch"
    /\ \E r \in FetchResults :
        /\ latest' = IF RecordsVersion(c, r) THEN AssignLatest(latest, c, cver[c]) ELSE latest
        /\ data' = [data EXCEPT ![c] = Published(c, r, @)]
        /\ seen' = [seen EXCEPT ![c] = IF r = "ok" THEN @ ELSE OffExample]
        /\ nfetch' = [nfetch EXCEPT ![c] = IF r = "ok" THEN @ ELSE 0]
        /\ fres' = [fres EXCEPT ![c] = r]
        /\ fails' = [fails EXCEPT ![c] = IF r \in Retryable THEN @ + 1 ELSE @]
        /\ IF r = "ok"
              THEN \* async_set_updated_data(self._prepare_data(...)); return
                   /\ cpc' = [cpc EXCEPT ![c] = "done"]
                   /\ outcome' = [outcome EXCEPT ![c] = "success"]
                   /\ UNCHANGED warned
              ELSE IF Retried(r)
              THEN IF attempt[c] < Attempts
                      THEN \* continue: the next iteration sleeps again
                           /\ cpc' = [cpc EXCEPT ![c] = LoopTop(c)]
                           /\ UNCHANGED <<outcome, warned>>
                      ELSE \* the loop is exhausted: _LOGGER.warning, return
                           /\ cpc' = [cpc EXCEPT ![c] = "done"]
                           /\ outcome' = [outcome EXCEPT ![c] = "exhausted"]
                           /\ warned' = [warned EXCEPT ![c] = TRUE]
              ELSE \* any other exception leaves the callback
                   /\ cpc' = [cpc EXCEPT ![c] = "done"]
                   /\ outcome' = [outcome EXCEPT ![c] = IF r = "empty" THEN "IndexError" ELSE r]
                   /\ UNCHANGED warned
    /\ UNCHANGED <<cver, attempt, pre, notified>>
    /\ UNCHANGED notCoord

CoordNext ==
    \E c \in Coordinators :
        \/ SetupLatest(c)
        \/ SetupFetch(c)
        \/ Notify(c)
        \/ SleepDone(c)
        \/ FetchDone(c)


(***************************************************************************)
(* Notification listener                                                   *)
(***************************************************************************)

\* The keys self._callbacks is created with.
KnownDatasets == {"obs", "radar_forecast", "harmonie"}
\* The calls of set_callback: each EDR coordinator registers its
\* get_coverage_datetime under its subentry id, the camera its _set_latest
\* under its unique id.
Registrations ==
    ({"obs"} \X {"s1", "s2"} \X {"f", "g"}) \cup {<<"radar_forecast", "cam", "set_latest">>}
\* data.datasetName of a message is whatever the broker sends.
MsgDatasets == KnownDatasets \cup {"other"}
NTopics == 2
NoMsg == [n |-> 0, dataset |-> "none"]
EmptyReg == [i \in {} |-> "f"]

ListenerInit ==
    /\ callbacks = [d \in KnownDatasets |-> EmptyReg]
    /\ lstate = "connecting"
    /\ client = 1
    /\ subscribed = 0
    /\ inbox = <<>>
    /\ arrived = 0
    /\ cur = NoMsg
    /\ running = {}
    /\ launched = <<>>
    /\ regAt = [known |-> TRUE, reg |-> EmptyReg]
    /\ lastReg = [d \in KnownDatasets |-> EmptyReg]
    /\ curResult = "none"
    /\ errCause = "none"
    /\ errors = 0
    /\ cancelled = FALSE

\* The mutation used for C15: a registration under an identifier that is
\* already present is ignored.
SetItemKeepFirst(table, id, cb) == table @@ (id :> cb)

\* table[identifier] = callback on a dict: the entry of the key is added or
\* overwritten.
SetItem(table, id, cb) == (id :> cb) @@ table

\* self._callbacks[dataset][identifier] = callback
set_callback(d, id, cb) ==
    /\ callbacks' = [callbacks EXCEPT ![d] = SetItem(@, id, cb)]
    /\ lastReg' = [lastReg EXCEPT ![d] =
                      [x \in DOMAIN @ \cup {id} |-> IF x = id THEN cb ELSE @[x]]]
    /\ UNCHANGED <<lstate, client, subscribed, inbox, arrived, cur, running, launched,
                   regAt, curResult, errCause, errors, cancelled>>
    /\ UNCHANGED notRegistry

\* async with self._setup_client() as c: the connection is made.
ConnectOk ==
    /\ lstate = "connecting"
    /\ lstate' = "subscribing"
    /\ subscribed' = 0
    /\ UNCHANGED <<callbacks, client, inbox, arrived, cur, running, launched, regAt,
                   curResult, errCause, errors, cancelled>>
    /\ UNCHANGED notListener

\* The mutation used for C27: the message loop is entered after the first
\* subscription.
LoopDoneAfterFirst(n) == n >= 1

\* The loop `for t in TOPICS` is done after n subscriptions.
LoopDone(n) == n = NTopics

\* for t in TOPICS: await c.subscribe(t)
SubscribeOk ==
    /\ lstate = "subscribing"
    /\ subscribed' = subscribed + 1
    /\ lstate' = IF LoopDone(subscribed + 1) THEN "waiting" ELSE "subscribing"
    /\ UNCHANGED <<callbacks, client, inbox, arrived, cur, running, launched, regAt,
                   curResult, errCause, errors, cancelled>>
    /\ UNCHANGED notListener

\* The mutation used for C7: only MqttError is handled, any other exception
\* ends run().
OnExceptionMqttOnly(cause) == IF cause = "MqttError" THEN "backoff" ELSE "stopped"

\* except MqttError: ... await asyncio.sleep(30)
\* except Exception: ... await asyncio.sleep(30)
OnException(cause) == "backoff"

\* The broker connection fails while connecting, subscribing or waiting for
\* the next message: MqttError leaves the async with block.
MqttErr ==
    /\ lstate \in {"connecting", "subscribing", "waiting"}
    /\ errors < MaxErrors
    /\ errors' = errors + 1
    /\ lstate' = OnException("MqttError")
    /\ errCause' = "MqttError"
    /\ inbox' = <<>>
    /\ subscribed' = 0
    /\ UNCHANGED <<callbacks, client, arrived, cur, running, launched, regAt, curResult,
                   cancelled>>
    /\ UNCHANGED notListener

\* The broker publishes a file notification on a subscribed topic.
Arrive ==
    /\ \/ lstate \in {"waiting", "handling"}
       \/ lstate = "subscribing" /\ subscribed > 0
    /\ arrived < MaxMsg
    /\ arrived' = arrived + 1
    /\ \E d \in MsgDatasets : inbox' = Append(inbox, [n |-> arrived + 1, dataset |-> d])
    /\ UNCHANGED <<callbacks, lstate, client, subscribed, cur, running, launched, regAt,
                   curResult, errCause, errors, cancelled>>
    /\ UNCHANGED notListener

\* The identifiers of a registry in the order .values() yields them.
RECURSIVE InOrder(_)
InOrder(ids) ==
    IF ids = {} THEN <<>>
    ELSE LET i == CHOOSE x \in ids : \A y \in ids : x = "s1" \/ y # "s1"
         IN <<i>> \o InOrder(ids \ {i})

\* The mutation used for C6: the dataset of the event is ignored and the
\* callbacks of every dataset are invoked.
RECURSIVE InvokedOfAll(_, _)
InvokedOfAll(m, ds) ==
    IF ds = {} THEN <<>>
    ELSE LET d == CHOOSE x \in ds : TRUE
             ids == InOrder(DOMAIN callbacks[d])
         IN [k \in 1 .. Len(ids) |-> [msg |-> m.n, id |-> ids[k], cb |-> callbacks[d][ids[k]]]]
            \o InvokedOfAll(m, ds \ {d})
InvokedAll(m) == InvokedOfAll(m, KnownDatasets)

\* [c(event) for c in self._callbacks[dataset].values()]
Invoked(m) ==
    LET ids == InOrder(DOMAIN callbacks[m.dataset])
    IN [k \in 1 .. Len(ids) |-> [msg |-> m.n, id |-> ids[k], cb |-> callbacks[m.dataset][ids[k]]]]

Range(q) == {q[k] : k \in DOMAIN q}

\* async for message in c.messages: await self.handle_message(message), up
\* to the await of gather.  self._callbacks[dataset] raises KeyError for a
\* name that is not a key; gather of no coroutines returns at once.
HandleMessage ==
    /\ lstate = "waiting"
    /\ inbox # <<>>
    /\ LET m == Head(inbox) IN
        /\ cur' = m
        /\ IF m.dataset \notin DOMAIN callbacks
              THEN /\ lstate' = OnException("KeyError")
                   /\ errCause' = "KeyError"
                   /\ curResult' = "KeyError"
                   /\ regAt' = [known |-> FALSE, reg |-> EmptyReg]
                   /\ launched' = <<>>
                   /\ inbox' = <<>>
                   /\ subscribed' = 0
                   /\ UNCHANGED running
              ELSE /\ regAt' = [known |-> TRUE, reg |-> callbacks[m.dataset]]
                   /\ launched' = Invoked(m)
                   /\ running' = running \cup Range(Invoked(m))
                   /\ inbox' = Tail(inbox)
                   /\ lstate' = IF Invoked(m) = <<>> THEN "waiting" ELSE "handling"
                   /\ curResult' = IF Invoked(m) = <<>> THEN "returned" ELSE "pending"
                   /\ UNCHANGED <<errCause, subscribed>>
    /\ UNCHANGED <<callbacks, client, arrived, errors, cancelled>>
    /\ UNCHANGED notListener

\* The invocations the pending gather waits for.
Awaited == IF lstate = "handling" THEN {t \in running : t.msg = cur.n} ELSE {}

\* A callback returns.  When it was the last one of the pending gather,
\* handle_message returns and the loop pulls the next message.
CallbackDone(t) ==
    /\ t \in running
    /\ running' = running \ {t}
    /\ IF Awaited = {t}
          THEN lstate' = "waiting" /\ curResult' = "returned"
          ELSE UNCHANGED <<lstate, curResult>>
    /\ UNCHANGED <<callbacks, client, subscribed, inbox, arrived, cur, launched, regAt,
                   errCause, errors, cancelled>>
    /\ UNCHANGED notListener

\* A callback raises.  gather (return_exceptions=False) passes the first
\* exception on at once and leaves the other invocations running; the
\* exception leaves handle_message and the async with block.
CallbackRaise(t) ==
    /\ t \in running
    /\ running' = running \ {t}
    /\ IF t \in Awaited
          THEN /\ lstate' = OnException("callback")
               /\ errCause' = "callback"
               /\ curResult' = "raised"
               /\ inbox' = <<>>
               /\ subscribed' = 0
          ELSE UNCHANGED <<lstate, errCause, curResult, inbox, subscribed>>
    /\ UNCHANGED <<callbacks, client, arrived, cur, launched, regAt, errors, cancelled>>
    /\ UNCHANGED notListener

\* await asyncio.sleep(30) returns; the next iteration of while True makes
\* a new client and connects.
BackoffDone ==
    /\ lstate = "backoff"
    /\ lstate' = "connecting"
    /\ client' = client + 1
    /\ UNCHANGED <<callbacks, subscribed, inbox, arrived, cur, running, launched, regAt,
                   curResult, errCause, errors, cancelled>>
    /\ UNCHANGED notListener

\* disconnect(): self._task.cancel().  The cancellation reaches the gather
\* run() is waiting on and with it the invocations it waits for.
Cancel ==
    /\ lstate # "stopped"
    /\ lstate' = "stopped"
    /\ cancelled' = TRUE
    /\ running' = running \ Awaited
    /\ inbox' = <<>>
    /\ subscribed' = 0
    /\ UNCHANGED <<callbacks, client, arrived, cur, launched, regAt, curResult, errCause,
                   errors>>
    /\ UNCHANGED notListener

ListenerNext ==
    \/ \E r \in Registrations : set_callback(r[1], r[2], r[3])
    \/ ConnectOk
    \/ SubscribeOk
    \/ MqttErr
    \/ Arrive
    \/ HandleMessage
    \/ \E t \in running : CallbackDone(t)
    \/ \E t \in running : CallbackRaise(t)
    \/ BackoffDone
    \/ Cancel


(***************************************************************************)
(* Precipitation radar camera                                              *)
(*                                                                         *)
(* The body of `async with self._condition` never awaits while it holds    *)
(* the lock, except in wait(), which releases it: every critical section   *)
(* is one atomic step and the lock itself needs no variable.               *)
(***************************************************************************)

Callers == 1 .. NCallers
Times == 1 .. MaxTime

CameraInit ==
    /\ last_image = None
    /\ last_image_dt = None
    /\ last_modified = None
    /\ loading = FALSE
    /\ kpc = [c \in Callers |-> "idle"]
    /\ ref = [c \in Callers |-> None]
    /\ ret = [c \in Callers |-> None]
    /\ kres = [c \in Callers |-> "none"]
    /\ sleeping = {}
    /\ calls = 0
    /\ radars = 0
    /\ fresh = [c \in Callers |-> FALSE]
    /\ regens = [c \in Callers |-> 0]
    /\ peers = [c \in Callers |-> {}]
    /\ sawLoading = [c \in Callers |-> FALSE]
    /\ atWake = [c \in Callers |-> None]

\* The mutation used for C14: an artifact of the same version as the latest
\* known source version is regenerated too.
needs_refreshNonStrict ==
    IF last_modified = None \/ last_image_dt = None
        THEN TRUE
        ELSE last_modified >= last_image_dt

\* __needs_refresh
needs_refresh ==
    IF last_modified = None \/ last_image_dt = None
        THEN TRUE
        ELSE last_modified > last_image_dt

\* The mutation used for C10: the check of the loading flag is missing, a
\* caller that finds a regeneration in progress starts one of its own.
WaitsIfLoadingNever(isLoading) == FALSE

\* The mutation used for C31: a caller waits only when there is a cached
\* animation to return afterwards.
WaitsIfLoadingAndCached(isLoading) == isLoading /\ last_image # None

\* if self._loading: await self._condition.wait()
WaitsIfLoading(isLoading) == isLoading

\* async with self._condition: if self._loading: wait ... else
\* self._loading = True; then __retrieve_radar_image(self._last_modified)
\* is called and runs to its await of the tile fetches.  lm is the value
\* of _last_modified at that moment.
TakeOrWait(c, lm) ==
    IF WaitsIfLoading(loading)
        THEN /\ kpc' = [kpc EXCEPT ![c] = "wait"]
             /\ sawLoading' = [sawLoading EXCEPT ![c] = loading]
             /\ regens' = [regens EXCEPT ![c] = 0]
             /\ UNCHANGED <<loading, ref>>
        ELSE /\ loading' = TRUE
             /\ kpc' = [kpc EXCEPT ![c] = "retrieve"]
             /\ ref' = [ref EXCEPT ![c] = lm]
             /\ regens' = [regens EXCEPT ![c] = 1]
             /\ sawLoading' = [sawLoading EXCEPT ![c] = loading]

\* A call of async_camera_image, up to its first await.
Call(c) ==
    /\ kpc[c] = "idle"
    /\ calls < MaxCalls
    /\ calls' = calls + 1
    /\ fresh' = [fresh EXCEPT ![c] = ~loading /\ needs_refresh]
    /\ peers' = [d \in Callers |->
                    IF d = c
                       THEN IF ~loading /\ needs_refresh
                               THEN {e \in Callers \ {c} : kpc[e] # "idle" /\ fresh[e]}
                               ELSE {}
                       ELSE peers[d] \ {c}]
    /\ IF ~needs_refresh
          THEN \* return self._last_image
               /\ ret' = [ret EXCEPT ![c] = last_image]
               /\ kres' = [kres EXCEPT ![c] = "cached"]
               /\ regens' = [regens EXCEPT ![c] = 0]
               /\ sawLoading' = [sawLoading EXCEPT ![c] = FALSE]
               /\ UNCHANGED <<kpc, loading, ref>>
          ELSE IF last_modified = None
          THEN \* await self.__latest_image_datetime()
               /\ kpc' = [kpc EXCEPT ![c] = "capabilities"]
               /\ kres' = [kres EXCEPT ![c] = "none"]
               /\ regens' = [regens EXCEPT ![c] = 0]
               /\ sawLoading' = [sawLoading EXCEPT ![c] = FALSE]
               /\ UNCHANGED <<ret, loading, ref>>
          ELSE /\ kres' = [kres EXCEPT ![c] = "none"]
               /\ TakeOrWait(c, last_modified)
               /\ UNCHANGED ret
    /\ UNCHANGED <<last_image, last_image_dt, last_modified, sleeping, radars, atWake>>
    /\ UNCHANGED notCamera

\* self._last_modified = await self.__latest_image_datetime() returns the
\* end of the time dimension of the capabilities document; the caller goes
\* on to the lock without another await.
CapabilitiesDone(c) ==
    /\ kpc[c] = "capabilities"
    /\ \E t \in Times :
        /\ last_modified' = t
        /\ TakeOrWait(c, t)
    /\ UNCHANGED <<last_image, last_image_dt, ret, kres, sleeping, calls, radars, fresh,
                   peers, atWake>>
    /\ UNCHANGED notCamera

\* get_capabilities_radar raises: the exception leaves async_camera_image
\* before the lock is taken.
CapabilitiesFail(c) ==
    /\ kpc[c] = "capabilities"
    /\ kpc' = [kpc EXCEPT ![c] = "idle"]
    /\ kres' = [kres EXCEPT ![c] = "raised"]
    /\ UNCHANGED <<last_image, last_image_dt, last_modified, loading, ref, ret, sleeping,
                   calls, radars, fresh, regens, peers, sawLoading, atWake>>
    /\ UNCHANGED notCamera

\* The wake-ups notify_all queued run before the tile fetches of a
\* regeneration started later can complete.
NoneWoken == \A c \in Callers : kpc[c] # "woken"

\* self._condition.notify_all()
NotifyAll(pcs) == [c \in Callers |-> IF pcs[c] = "wait" THEN "woken" ELSE pcs[c]]

\* The mutation used for C28: loading is cleared after the return
\* statement only, not in a finally block.
LoadingAfterNoFinally(how) == how = "raised"

\* finally: async with self._condition: self._loading = False
\* The block runs when the try block returns and when it raises.
LoadingAfter(how) == FALSE

\* The mutation used for C30: a regeneration that raises drops the cached
\* animation.
StoredAfterOrDropped(how, old, new) == IF how = "returned" THEN new ELSE None

\* self._last_image = output.getvalue() is the last statement but one of
\* __retrieve_radar_image: it is reached only when gather has returned
\* every tile.
StoredAfter(how, old, new) == IF how = "returned" THEN new ELSE old

\* The tile fetches have all returned: the animation is stored,
\* self._last_image_dt = self._last_modified, the image is returned; the
\* finally block clears loading and notifies the waiters.
RetrieveOk(c) ==
    /\ kpc[c] = "retrieve"
    /\ NoneWoken
    /\ last_image' = StoredAfter("returned", last_image, ref[c])
    /\ last_image_dt' = last_modified
    /\ ret' = [ret EXCEPT ![c] = ref[c]]
    /\ kres' = [kres EXCEPT ![c] = "regenerated"]
    /\ loading' = LoadingAfter("returned")
    /\ kpc' = NotifyAll([kpc EXCEPT ![c] = "idle"])
    /\ atWake' = [d \in Callers |-> IF kpc[d] = "wait" THEN ref[c] ELSE atWake[d]]
    /\ UNCHANGED <<last_modified, ref, sleeping, calls, radars, fresh, regens, peers,
                   sawLoading>>
    /\ UNCHANGED notCamera

\* A tile fetch raised: gather raises, nothing is stored, the exception
\* leaves async_camera_image through the finally block.
RetrieveFail(c) ==
    /\ kpc[c] = "retrieve"
    /\ NoneWoken
    /\ kres' = [kres EXCEPT ![c] = "raised"]
    /\ loading' = LoadingAfter("raised")
    /\ kpc' = NotifyAll([kpc EXCEPT ![c] = "idle"])
    /\ atWake' = [d \in Callers |-> IF kpc[d] = "wait" THEN last_image ELSE atWake[d]]
    /\ last_image' = StoredAfter("raised", last_image, ref[c])
    /\ UNCHANGED <<last_image_dt, last_modified, ref, ret, sleeping, calls,
                   radars, fresh, regens, peers, sawLoading>>
    /\ UNCHANGED notCamera

\* wait() has returned: return self._last_image
WokenReturn(c) ==
    /\ kpc[c] = "woken"
    /\ kpc' = [kpc EXCEPT ![c] = "idle"]
    /\ ret' = [ret EXCEPT ![c] = last_image]
    /\ kres' = [kres EXCEPT ![c] = "waited"]
    /\ UNCHANGED <<last_image, last_image_dt, last_modified, loading, ref, sleeping, calls,
                   radars, fresh, regens, peers, sawLoading, atWake>>
    /\ UNCHANGED notCamera

\* _set_latest is invoked with a radar_forecast event and goes to sleep.
SetLatestStart(v) ==
    /\ radars < MaxRadar
    /\ radars' = radars + 1
    /\ sleeping' = sleeping \cup {v}
    /\ UNCHANGED <<last_image, last_image_dt, last_modified, loading, kpc, ref, ret, kres,
                   calls, fresh, regens, peers, sawLoading, atWake>>
    /\ UNCHANGED notCamera

\* await asyncio.sleep(15) returns: self._last_modified = the parsed timestamp
SetLatestDone(v) ==
    /\ v \in sleeping
    /\ sleeping' = sleeping \ {v}
    /\ last_modified' = v
    /\ UNCHANGED <<last_image, last_image_dt, loading, kpc, ref, ret, kres, calls, radars,
                   fresh, regens, peers, sawLoading, atWake>>
    /\ UNCHANGED notCamera

CameraNext ==
    \/ \E c \in Callers : Call(c)
    \/ \E c \in Callers : CapabilitiesDone(c)
    \/ \E c \in Callers : CapabilitiesFail(c)
    \/ \E c \in Callers : RetrieveOk(c)
    \/ \E c \in Callers : RetrieveFail(c)
    \/ \E c \in Callers : WokenReturn(c)
    \/ \E v \in Times : SetLatestStart(v)
    \/ \E v \in Times : SetLatestDone(v)

(***************************************************************************)
(* Tile fetches of one regeneration through the WMS client                 *)
(*                                                                         *)
(* Times are minutes.  The waiter release() wakes runs before the          *)
(* response of any other request is processed, so giving a permit back     *)
(* and handing it to the first waiter is one step.                         *)
(***************************************************************************)

\* The reference times a regeneration is started with (5-minute aligned).
RefTimes == {5 * t : t \in Times}

\* The mutation used for C17: the real-time loop runs up to and including
\* ref_time.
RECURSIVE RealtimeInclusive(_, _)
RealtimeInclusive(time, T) ==
    IF time <= T
        THEN <<[kind |-> "realtime", time |-> time, ref |-> None]>> \o RealtimeInclusive(time + TickStep, T)
        ELSE <<>>

\* time = ref_time - 60 min; while time < ref_time: append; time += 10 min
RECURSIVE Realtime(_, _)
Realtime(time, T) ==
    IF time < T
        THEN <<[kind |-> "realtime", time |-> time, ref |-> None]>> \o Realtime(time + TickStep, T)
        ELSE <<>>

\* time = ref_time; while time <= ref_time + 120 min: append; time += 10 min
RECURSIVE Forecast(_, _)
Forecast(time, T) ==
    IF time <= T + ForecastWindow
        THEN <<[kind |-> "forecast", time |-> time, ref |-> T]>> \o Forecast(time + TickStep, T)
        ELSE <<>>

\* The list `fetch` __retrieve_radar_image builds for ref_time T.
FetchList(T) == Realtime(T - RealtimeWindow, T) \o Forecast(T, T)

\* The position of request r in the list q.
IndexOf(q, r) == CHOOSE k \in DOMAIN q : q[k] = r

\* async with self._semaphore, entered by the requests of q in order: a
\* request takes a permit when one is left and no one waits, else it queues.
RECURSIVE Enter(_, _, _, _)
Enter(q, sem, wait, infl) ==
    IF q = <<>> THEN [semaphore |-> sem, waiters |-> wait, inflight |-> infl]
    ELSE IF sem > 0 /\ wait = <<>>
         THEN Enter(Tail(q), sem - 1, wait, infl \cup {Head(q)})
         ELSE Enter(Tail(q), sem, Append(wait, Head(q)), infl)

\* The mutation used for C13: the permit is given back only when the
\* request returns normally.
ReleasesPermitOnReturn(how) == how = "ok"

\* async with self._semaphore: __aexit__ releases on return and on raise.
ReleasesPermit(how) == TRUE

\* Request r leaves `async with self._semaphore` (how: "ok" or "raise"):
\* the permit goes to the first waiter or back to the semaphore.
Leave(r, how) ==
    IF ~ReleasesPermit(how)
        THEN /\ inflight' = inflight \ {r}
             /\ UNCHANGED <<semaphore, waiters>>
        ELSE IF waiters # <<>>
        THEN /\ inflight' = (inflight \ {r}) \cup {Head(waiters)}
             /\ waiters' = Tail(waiters)
             /\ UNCHANGED semaphore
        ELSE /\ inflight' = inflight \ {r}
             /\ semaphore' = semaphore + 1
             /\ UNCHANGED waiters

\* The mutation used for C18: the results are kept in the order in which
\* the fetches completed.
GatherPutOnArrival(res, i, t) == Append(res, <<i, t>>)

\* asyncio.gather: the result list is in the order of the awaitables.
GatherPut(res, i, t) ==
    LET before == SelectSeq(res, LAMBDA x : x[1] < i)
        after == SelectSeq(res, LAMBDA x : x[1] > i)
    IN before \o <<<<i, t>>>> \o after

TilesInit ==
    /\ ref_time = None
    /\ fetch = <<>>
    /\ semaphore = Permits
    /\ waiters = <<>>
    /\ inflight = {}
    /\ radar_images = <<>>
    /\ gstate = "idle"
    /\ images = <<>>
    /\ others = 0
    /\ overtaken = FALSE

\* Another request through the same client calls WMS.get:
\* get_capabilities_radar, which async_camera_image calls only while
\* _last_modified is None, that is before the first regeneration starts.
OtherRequest ==
    /\ ref_time = None
    /\ others < MaxOther
    /\ others' = others + 1
    /\ LET e == Enter(<<[kind |-> "other", time |-> others + 1, ref |-> None]>>, semaphore, waiters, inflight)
       IN /\ semaphore' = e.semaphore
          /\ waiters' = e.waiters
          /\ inflight' = e.inflight
    /\ UNCHANGED <<ref_time, fetch, radar_images, gstate, images, overtaken>>
    /\ UNCHANGED notTiles

\* __retrieve_radar_image(T) up to `await asyncio.gather(*fetch)`: the list
\* is built, gather starts every coroutine, each runs to the semaphore.
StartRetrieve(T) ==
    /\ gstate = "idle"
    /\ ref_time' = T
    /\ fetch' = FetchList(T)
    /\ gstate' = "pending"
    /\ LET e == Enter(FetchList(T), semaphore, waiters, inflight)
       IN /\ semaphore' = e.semaphore
          /\ waiters' = e.waiters
          /\ inflight' = e.inflight
    /\ UNCHANGED <<radar_images, images, others, overtaken>>
    /\ UNCHANGED notTiles

\* The response of request r arrives and WMS.get returns the buffer.  For
\* a tile fetch of the pending gather the result is kept; with the last
\* one gather returns and the frames are composited and encoded in the
\* order of radar_images.
RequestOk(r) ==
    /\ r \in inflight
    /\ Leave(r, "ok")
    /\ IF r.kind # "other" /\ gstate = "pending"
          THEN LET res == GatherPut(radar_images, IndexOf(fetch, r), r.time)
               IN /\ radar_images' = res
                  /\ overtaken' = (overtaken \/ \E x \in inflight \cup Range(waiters) :
                                       x.kind # "other" /\ IndexOf(fetch, x) < IndexOf(fetch, r))
                  /\ IF Len(res) = Len(fetch)
                        THEN /\ gstate' = "returned"
                             /\ images' = [k \in DOMAIN res |-> res[k][2]]
                        ELSE UNCHANGED <<gstate, images>>
          ELSE UNCHANGED <<radar_images, gstate, images, overtaken>>
    /\ UNCHANGED <<ref_time, fetch, others>>
    /\ UNCHANGED notTiles

\* WMS.get raises for request r (400, 403, 404, 429, 5xx, or a client
\* error).  For a tile fetch of the pending gather, gather raises at once
\* and nothing is encoded; the other tile fetches go on.
RequestRaise(r) ==
    /\ r \in inflight
    /\ Leave(r, "raise")
    /\ IF r.kind # "other" /\ gstate = "pending"
          THEN /\ gstate' = "raised"
               /\ radar_images' = <<>>
          ELSE UNCHANGED <<radar_images, gstate>>
    /\ UNCHANGED <<ref_time, fetch, images, others, overtaken>>
    /\ UNCHANGED notTiles

TilesNext ==
    \/ OtherRequest
    \/ \E T \in RefTimes : StartRetrieve(T)
    \/ \E r \in inflight : RequestOk(r)
    \/ \E r \in inflight : RequestRaise(r)


(***************************************************************************)
(* The version of an event: strptime on the filename                       *)
(*                                                                         *)
(* A datetime is the number of minutes since 1970-01-01T00:00Z.            *)
(***************************************************************************)

ObsPrefix == "KMDS__OPER_P___10M_OBS_L2_"
ObsSuffix == ".nc"

\* The w decimal digits of n, most significant first.
Digits(n, w) ==
    LET RECURSIVE Pow10(_)
        Pow10(k) == IF k = 0 THEN 1 ELSE 10 * Pow10(k - 1)
    IN [k \in 1 .. w |-> (n \div Pow10(w - k)) % 10]

\* int() of a sequence of decimal digits.
RECURSIVE Num(_)
Num(ds) == IF ds = <<>> THEN 0 ELSE 10 * Num(SubSeq(ds, 1, Len(ds) - 1)) + ds[Len(ds)]

IsLeap(y) == (y % 4 = 0 /\ y % 100 # 0) \/ y % 400 = 0

DaysInMonth(y, m) ==
    IF m = 2 THEN (IF IsLeap(y) THEN 29 ELSE 28)
    ELSE IF m \in {4, 6, 9, 11} THEN 30 ELSE 31

\* The days from 1970-01-01 to the date y-m-d of the proleptic Gregorian
\* calendar (datetime's ordinal, shifted to the epoch).
DaysFromCivil(y, m, d) ==
    LET yy == IF m <= 2 THEN y - 1 ELSE y
        era == yy \div 400
        yoe == yy - era * 400
        mp == IF m > 2 THEN m - 3 ELSE m + 9
        doy == (153 * mp + 2) \div 5 + d - 1
        doe == yoe * 365 + yoe \div 4 - yoe \div 100 + doy
    IN era * 146097 + doe - 719468

\* datetime(y, m, d, h, mi, tzinfo=timezone.utc)
DateTime(y, m, d, h, mi) == (DaysFromCivil(y, m, d) * 24 + h) * 60 + mi

\* The fields year, month, day, hour, minute of a datetime.
Fields(dt) ==
    LET days == dt \div 1440
        z == days + 719468
        era == z \div 146097
        doe == z - era * 146097
        yoe == (doe - doe \div 1460 + doe \div 36524 - doe \div 146096) \div 365
        doy == doe - (365 * yoe + yoe \div 4 - yoe \div 100)
        mp == (5 * doy + 2) \div 153
        d == doy - (153 * mp + 2) \div 5 + 1
        m == IF mp < 10 THEN mp + 3 ELSE mp - 9
        y == yoe + era * 400 + (IF m <= 2 THEN 1 ELSE 0)
    IN <<y, m, d, (dt % 1440) \div 60, dt % 60>>

\* The name upstream gives the file of the observations of y-m-d h:mi.
ObsFilename(y, m, d, h, mi) ==
    [prefix |-> ObsPrefix,
     stamp |-> Digits(y, 4) \o Digits(m, 2) \o Digits(d, 2) \o Digits(h, 2) \o Digits(mi, 2),
     suffix |-> ObsSuffix]

\* Whether strptime(filename, "KMDS__OPER_P___10M_OBS_L2_%Y%m%d%H%M.nc")
\* matches: the literal parts, and the ranges of %m, %d, %H and %M.
Matches(f) ==
    LET y == Num(SubSeq(f.stamp, 1, 4))
        m == Num(SubSeq(f.stamp, 5, 6))
        d == Num(SubSeq(f.stamp, 7, 8))
    IN /\ f.prefix = ObsPrefix
       /\ f.suffix = ObsSuffix
       /\ m \in 1 .. 12
       /\ d \in 1 .. DaysInMonth(y, m)
       /\ Num(SubSeq(f.stamp, 9, 10)) \in 0 .. 23
       /\ Num(SubSeq(f.stamp, 11, 12)) \in 0 .. 59

\* datetime.strptime(filename, ...).replace(tzinfo=timezone.utc)
Strptime(f) ==
    DateTime(Num(SubSeq(f.stamp, 1, 4)), Num(SubSeq(f.stamp, 5, 6)), Num(SubSeq(f.stamp, 7, 8)),
             Num(SubSeq(f.stamp, 9, 10)), Num(SubSeq(f.stamp, 11, 12)))

\* The mutation used for C16: the version of an event is its arrival time.
EventVersionOnArrival(f, arrival) == arrival

\* filename_datetime = datetime.strptime(event["data"]["filename"], ...)
EventVersion(f, arrival) == Strptime(f)

\* dt.isoformat(timespec="seconds").replace("+00:00", "Z"), as the digits
\* of YYYY-MM-DDThh:mm:ssZ.
IsoDigits(dt) ==
    LET f == Fields(dt)
    IN Digits(f[1], 4) \o Digits(f[2], 2) \o Digits(f[3], 2) \o Digits(f[4], 2)
       \o Digits(f[5], 2) \o Digits(0, 2)

\* The filenames of the events: observation files of some dates and times,
\* names with a stamp strptime rejects (month 13), and the name of a file
\* of another dataset.
Filenames ==
    {ObsFilename(y, m, d, h, mi) :
        y \in {2023, 2024}, m \in {1, 12, 13}, d \in {15, 31}, h \in {10, 23}, mi \in {20, 30, 59}}
    \cup {[ObsFilename(2024, 1, 15, 10, 30) EXCEPT !.prefix = "RAD_NL25_RAC_FM_", !.suffix = ".h5"]}

\* The example of the scenario: the file of 2024-01-15 10:30.
ExampleFilename == ObsFilename(2024, 1, 15, 10, 30)

LatestKnown ==
    {DateTime(2024, 1, 15, 10, 20), DateTime(2024, 1, 15, 10, 30), DateTime(2024, 1, 15, 10, 40)}
Arrivals == {DateTime(2024, 1, 15, 10, 31), DateTime(2024, 1, 15, 10, 45)}

\* An event has been delivered to the callback of a coordinator.
EventInit ==
    /\ ev_filename \in Filenames
    /\ ev_arrival \in Arrivals
    /\ ev_variant \in Coordinators
    /\ ev_latest \in LatestKnown
    /\ ev_stage = "notified"
    /\ filename_datetime = None
    /\ ev_query = <<>>

\* get_coverage_datetime up to its first await: strptime raises ValueError
\* on a name that does not match; an event already got returns at once.
EventHandled ==
    /\ ev_stage = "notified"
    /\ IF ~Matches(ev_filename)
          THEN /\ ev_stage' = "ValueError"
               /\ UNCHANGED filename_datetime
          ELSE LET v == EventVersion(ev_filename, ev_arrival)
               IN /\ filename_datetime' = v
                  /\ ev_stage' = IF AlreadyGot(ev_variant, v, ev_latest) THEN "skipped" ELSE "sleep"
    /\ UNCHANGED <<ev_filename, ev_arrival, ev_variant, ev_latest, ev_query>>
    /\ UNCHANGED notEvent

\* The sleep returns and the fetch is issued with filename_datetime.
EventFetch ==
    /\ ev_stage = "sleep"
    /\ ev_stage' = "fetch"
    /\ ev_query' = IsoDigits(filename_datetime)
    /\ UNCHANGED <<ev_filename, ev_arrival, ev_variant, ev_latest, filename_datetime>>
    /\ UNCHANGED notEvent

\* The event of the scenario, delivered to the Manual coordinator.
EventExample ==
    /\ ev_filename = ExampleFilename
    /\ ev_arrival = DateTime(2024, 1, 15, 10, 31)
    /\ ev_variant = "manual"
    /\ ev_latest = DateTime(2024, 1, 15, 10, 20)
    /\ ev_stage = "notified"
    /\ filename_datetime = None
    /\ ev_query = <<>>

EventNext ==
    \/ EventHandled
    \/ EventFetch


(***************************************************************************)
(* closest_coverage                                                        *)
(*                                                                         *)
(* A coverage is [station, km]: the station it is of and the haversine     *)
(* distance from that station to the location, which is an input here.     *)
(***************************************************************************)

\* The lists of coverages: station k is the k-th of the list.
CoverageLists ==
    UNION {{[k \in 1 .. n |-> [station |-> k, km |-> kms[k]]] : kms \in [1 .. n -> 0 .. MaxKm]} :
              n \in 0 .. MaxLen}

\* haversine(c.y, c.x, location.lat, location.lon)
haversine(c) == c.km

\* The mutation used for C20: of the elements at minimal distance the last
\* one is kept.
RECURSIVE MinByKeyLast(_, _)
MinByKeyLast(pairs, best) ==
    IF pairs = <<>> THEN best
    ELSE MinByKeyLast(Tail(pairs), IF Head(pairs)[2] <= best[2] THEN Head(pairs) ELSE best)

\* min(iterable, key=lambda x: x[1]) after its first element: an element
\* replaces the best so far only when its key is strictly smaller.
RECURSIVE MinByKey(_, _)
MinByKey(pairs, best) ==
    IF pairs = <<>> THEN best
    ELSE MinByKey(Tail(pairs), IF Head(pairs)[2] < best[2] THEN Head(pairs) ELSE best)

\* coverage, distance = min(((c, haversine(...)) for c in coverages), key=...)
closest_coverage(cs) ==
    LET pairs == [k \in DOMAIN cs |-> <<cs[k], haversine(cs[k])>>]
    IN MinByKey(Tail(pairs), Head(pairs))

\* closest_coverage has been called with a list of CoverageLists.
ClosestInit ==
    /\ coverages \in CoverageLists
    /\ closest = None
    /\ cc_stage = "called"

\* A call with the coverages of three stations at 2, 1 and 1 km.
ClosestExample ==
    /\ coverages = <<[station |-> 1, km |-> 2], [station |-> 2, km |-> 1],
                     [station |-> 3, km |-> 1]>>
    /\ closest = None
    /\ cc_stage = "called"

\* The call returns, or min() raises ValueError on an empty list.
ClosestReturn ==
    /\ cc_stage = "called"
    /\ IF coverages = <<>>
          THEN /\ cc_stage' = "ValueError"
               /\ UNCHANGED closest
          ELSE /\ cc_stage' = "returned"
               /\ closest' = closest_coverage(coverages)
    /\ UNCHANGED coverages
    /\ UNCHANGED notClosest

ClosestNext == ClosestReturn

(***************************************************************************)
(* The polling (forecast) coordinator                                      *)
(*                                                                         *)
(* An entry of the hourly series is [k, dateTime]: its position in the     *)
(* fetched list and its time in minutes since the epoch.                   *)
(***************************************************************************)

\* The times of the entries: the first and the last minute of the hours
\* 0 .. MaxHour.
HourlyTimes == {60 * h + m : h \in 0 .. MaxHour, m \in {0, 59}}

\* The fetched series: the entries are in any order.
HourlySeries ==
    UNION {{[k \in 1 .. n |-> [k |-> k, dateTime |-> ts[k]]] : ts \in [1 .. n -> HourlyTimes]} :
              n \in 0 .. MaxHourly}

\* The values of utcnow(): the first, second and last minute of an hour.
PollNows == {60 * h + m : h \in 1 .. MaxHour, m \in {0, 1, 59}}

\* utcnow().replace(minute=0, second=0, microsecond=0)
current_hour(now) == now - (now % 60)

\* The mutation used for C21: an entry at the top of the hour is pruned too.
PrunedStrict(forecast, now) ==
    SelectSeq(forecast, LAMBDA h : h.dateTime > current_hour(now))

\* [h for h in data["hourly"]["forecast"]
\*    if datetime.fromisoformat(h["dateTime"]) >= current_hour]
Pruned(forecast, now) ==
    SelectSeq(forecast, LAMBDA h : h.dateTime >= current_hour(now))

\* The update has been started with any series and any clock.
PollInit ==
    /\ pl_now \in PollNows
    /\ pl_fetched \in HourlySeries
    /\ pl_stage = "fetching"
    /\ pl_hourly = None

\* An update at 01:01 fetching the entries of 00:59, 01:00 and 01:59.
PollExample ==
    /\ pl_now = 61
    /\ pl_fetched = <<[k |-> 1, dateTime |-> 59], [k |-> 2, dateTime |-> 60],
                      [k |-> 3, dateTime |-> 119]>>
    /\ pl_stage = "fetching"
    /\ pl_hourly = None

\* weather() returned: the series is pruned and the data returned.
PollFetchOk ==
    /\ pl_stage = "fetching"
    /\ pl_hourly' = Pruned(pl_fetched, pl_now)
    /\ pl_stage' = "returned"
    /\ UNCHANGED <<pl_now, pl_fetched>>
    /\ UNCHANGED notPoll

\* weather() raised: a ServerError becomes UpdateFailed, any other
\* exception goes up as it is.
PollFetchFail ==
    /\ pl_stage = "fetching"
    /\ \E err \in {"ServerError", "other"} :
           pl_stage' = IF err = "ServerError" THEN "UpdateFailed" ELSE "raised"
    /\ UNCHANGED <<pl_now, pl_fetched, pl_hourly>>
    /\ UNCHANGED notPoll

PollNext ==
    \/ PollFetchOk
    \/ PollFetchFail

(***************************************************************************)
(* test_connection                                                         *)
(*                                                                         *)
(* What the broker answers is an input: the CONNECT is accepted, refused   *)
(* with a reason code (MqttConnectError) or fails in another way (another  *)
(* MqttError, OSError, a timeout); the SUBSCRIBE succeeds or fails.        *)
(***************************************************************************)

\* The reason codes a CONNECT is refused with.
ConnectReasonCodes == (NotAuthorized - RcSpan) .. (NotAuthorized + RcSpan)

\* The answers to a CONNECT.
ConnectAnswers ==
    {[kind |-> "ok", rc |-> 0], [kind |-> "error", rc |-> 0]}
        \cup {[kind |-> "refused", rc |-> rc] : rc \in ConnectReasonCodes}

\* test_connection has been called, with any answers of the broker.
TestInit ==
    /\ tc_connect \in ConnectAnswers
    /\ tc_subscribe \in {"ok", "error"}
    /\ tc_stage = "connecting"
    /\ tc_result = "pending"

\* A call against a broker that accepts the token.
TestExample ==
    /\ tc_connect = [kind |-> "ok", rc |-> 0]
    /\ tc_subscribe = "ok"
    /\ tc_stage = "connecting"
    /\ tc_result = "pending"

\* async with self._setup_client() as c: the connection is made.
TestConnectOk ==
    /\ tc_stage = "connecting"
    /\ tc_connect.kind = "ok"
    /\ tc_stage' = "subscribing"
    /\ UNCHANGED <<tc_connect, tc_subscribe, tc_result>>
    /\ UNCHANGED notTest

\* The value of the call after `except MqttConnectError as e`: TokenInvalid
\* is raised for the code 135; for any other code the handler ends and the
\* function goes on to `return True`.
AfterConnectError(rc) ==
    IF rc = NotAuthorized THEN <<"raised", "TokenInvalid">>
    ELSE <<"returned", "True">>

\* The CONNECT is refused: MqttConnectError with the reason code.
TestConnectRefused ==
    /\ tc_stage = "connecting"
    /\ tc_connect.kind = "refused"
    /\ tc_stage' = AfterConnectError(tc_connect.rc)[1]
    /\ tc_result' = AfterConnectError(tc_connect.rc)[2]
    /\ UNCHANGED <<tc_connect, tc_subscribe>>
    /\ UNCHANGED notTest

\* The connection fails in another way: except Exception, return False.
TestConnectError ==
    /\ tc_stage = "connecting"
    /\ tc_connect.kind = "error"
    /\ tc_stage' = "returned"
    /\ tc_result' = "False"
    /\ UNCHANGED <<tc_connect, tc_subscribe>>
    /\ UNCHANGED notTest

\* await c.subscribe(TOPICS[0]) returns, the client is left: return True.
TestSubscribeOk ==
    /\ tc_stage = "subscribing"
    /\ tc_subscribe = "ok"
    /\ tc_stage' = "returned"
    /\ tc_result' = "True"
    /\ UNCHANGED <<tc_connect, tc_subscribe>>
    /\ UNCHANGED notTest

\* await c.subscribe(TOPICS[0]) raises: except Exception, return False.
TestSubscribeError ==
    /\ tc_stage = "subscribing"
    /\ tc_subscribe = "error"
    /\ tc_stage' = "returned"
    /\ tc_result' = "False"
    /\ UNCHANGED <<tc_connect, tc_subscribe>>
    /\ UNCHANGED notTest

TestNext ==
    \/ TestConnectOk
    \/ TestConnectRefused
    \/ TestConnectError
    \/ TestSubscribeOk
    \/ TestSubscribeError

(***************************************************************************)
(* _prepare_data of the Auto coordinator                                   *)
(*                                                                         *)
(* A coverage is [station, km, carries, t]: the station it is of, the      *)
(* distance from that station to the location, the parameters its ranges   *)
(* hold and its timestamp.  The value of a parameter in a coverage is      *)
(* named by the station of that coverage.                                  *)
(***************************************************************************)

\* Two of the values of PARAMETER_ATTRIBUTE_MAP; the loop treats each
\* parameter on its own.
Params == {"rh", "ta"}

\* The lists of coverages: station k is the k-th of the list.
PrepLists ==
    UNION {[1 .. n -> [station : 1 .. MaxStations, km : 0 .. MaxDist,
                       carries : SUBSET Params, t : 1 .. MaxStamp]] : n \in 0 .. MaxStations}

\* The orders sort_coverage_on_distance can sort in; the function is not
\* in the sources and the description does not say which.
SortOrders == {"nearest first", "farthest first"}

\* c comes before d in the order.
Before(c, d, order) == IF order = "nearest first" THEN c.km < d.km ELSE c.km > d.km

\* Inserting c into the sorted list s, after the elements not behind it.
RECURSIVE Insert(_, _, _)
Insert(c, s, order) ==
    IF s = <<>> THEN <<c>>
    ELSE IF Before(c, Head(s), order) THEN <<c>> \o s
    ELSE <<Head(s)>> \o Insert(c, Tail(s), order)

\* sort_coverage_on_distance(coverages, location): a stable sort on the
\* distance to the location.
RECURSIVE sort_coverage_on_distance(_, _)
sort_coverage_on_distance(cs, order) ==
    IF cs = <<>> THEN <<>>
    ELSE Insert(cs[Len(cs)], sort_coverage_on_distance(SubSeq(cs, 1, Len(cs) - 1), order), order)

\* for coverage in sorted_coverages: if param in coverage["ranges"]:
\*     data["ranges"][param] = coverage["ranges"][param]
\* The loop has no break: every coverage carrying the parameter assigns it
\* in turn.
RECURSIVE Assigned(_, _, _)
Assigned(param, sorted, sofar) ==
    IF sorted = <<>> THEN sofar
    ELSE Assigned(param, Tail(sorted),
                  IF param \in Head(sorted).carries THEN Head(sorted).station ELSE sofar)

\* data["ranges"] after the loop over PARAMETER_ATTRIBUTE_MAP.values().
Ranges(sorted) ==
    LET carried == {p \in Params : \E k \in DOMAIN sorted : p \in sorted[k].carries}
    IN [p \in carried |-> Assigned(p, sorted, None)]

\* _prepare_data has been called with any list of PrepLists.
PrepInit ==
    /\ pd_coverages \in PrepLists
    /\ \A k \in DOMAIN pd_coverages : pd_coverages[k].station = k
    /\ pd_order \in SortOrders
    /\ pd_stage = "called"
    /\ pd_ranges = <<>>
    /\ pd_datetime = None

\* A call with the coverages of a station at 0 km carrying ta and one at
\* 1 km carrying rh and ta.
PrepExample ==
    /\ pd_coverages = <<[station |-> 1, km |-> 0, carries |-> {"ta"}, t |-> 1],
                        [station |-> 2, km |-> 1, carries |-> {"rh", "ta"}, t |-> 1]>>
    /\ pd_order = "nearest first"
    /\ pd_stage = "called"
    /\ pd_ranges = <<>>
    /\ pd_datetime = None

\* _prepare_data returns the snapshot.
PrepReturn ==
    /\ pd_stage = "called"
    /\ pd_coverages # <<>>
    /\ LET sorted == sort_coverage_on_distance(pd_coverages, pd_order)
       IN /\ pd_ranges' = Ranges(sorted)
          /\ pd_datetime' = sorted[1].t
    /\ pd_stage' = "returned"
    /\ UNCHANGED <<pd_coverages, pd_order>>
    /\ UNCHANGED notPrep

\* sorted_coverages[0] of an empty list raises IndexError.
PrepRaise ==
    /\ pd_stage = "called"
    /\ pd_coverages = <<>>
    /\ pd_stage' = "IndexError"
    /\ UNCHANGED <<pd_coverages, pd_order, pd_ranges, pd_datetime>>
    /\ UNCHANGED notPrep

PrepNext ==
    \/ PrepReturn
    \/ PrepRaise

(***************************************************************************)
(* The cold-start reference time of the clock-based camera                 *)
(*                                                                         *)
(* A datetime is [day, hour, minute, second]; microseconds are left out    *)
(* (replace() zeroes them as it zeroes the seconds).                       *)
(***************************************************************************)

\* The values of utcnow(): every minute and the first, second and last
\* second of it, in the first, second and last hour of the days
\* 1 .. MaxDay.
ColdNows ==
    [day : 1 .. MaxDay, hour : {0, 1, 23}, minute : 0 .. 59, second : {0, 1, 59}]

\* The seconds from the start of day 0 to the datetime.
ToSeconds(d) == ((d.day * 24 + d.hour) * 60 + d.minute) * 60 + d.second

\* The datetime that many seconds after the start of day 0.
FromSeconds(s) ==
    [day |-> s \div 86400, hour |-> (s % 86400) \div 3600,
     minute |-> (s % 3600) \div 60, second |-> s % 60]

\* d - timedelta(minutes=m)
MinusMinutes(d, m) == FromSeconds(ToSeconds(d) - 60 * m)

\* now.replace(minute=floor(now.minute / 5) * 5, second=0, microsecond=0)
FloorToFive(now) == [now EXCEPT !.minute = (now.minute \div 5) * 5, !.second = 0]

\* The mutation used for C24: the 5 minutes are not subtracted.
ColdReferenceNoMargin(now) == FloorToFive(now)

\* now.replace(...) - timedelta(minutes=5)
ColdReference(now) == MinusMinutes(FloorToFive(now), ColdMargin)

\* async_camera_image has been called at any time of ColdNows, no event
\* received yet.
ColdInit ==
    /\ cs_now \in ColdNows
    /\ cs_last_modified = None
    /\ cs_stage = "called"

\* A call at 00:03:59 of day 1.
ColdExample ==
    /\ cs_now = [day |-> 1, hour |-> 0, minute |-> 3, second |-> 59]
    /\ cs_last_modified = None
    /\ cs_stage = "called"

\* if self._last_modified is None: self._last_modified = ...
ColdStart ==
    /\ cs_stage = "called"
    /\ cs_last_modified = None
    /\ cs_last_modified' = ColdReference(cs_now)
    /\ cs_stage' = "chosen"
    /\ UNCHANGED cs_now
    /\ UNCHANGED notCold

ColdNext == ColdStart

(***************************************************************************)
(* The coordinators under the listener                                     *)
(*                                                                         *)
(* Both coordinators register on the observations dataset; each message of *)
(* that dataset invokes the callback of every registered coordinator and   *)
(* handle_message awaits their gather.  An invocation is named by its      *)
(* coordinator and the number of its message.                              *)
(***************************************************************************)

OvMessages == 1 .. MaxOvMsg

\* No invocation of the coordinator for the message (yet).
NoInvocation == [pc |-> "none", v |-> 0, attempt |-> 0]

\* An invocation that has returned or raised.
Ended(how) == [pc |-> how, v |-> 0, attempt |-> 0]

OverlapInit ==
    /\ ov_reg = [c \in Coordinators |-> FALSE]
    /\ ov_latest = [c \in Coordinators |-> Epoch]
    /\ ov_data = [c \in Coordinators |-> None]
    /\ ov_inv = [c \in Coordinators |-> [n \in OvMessages |-> NoInvocation]]
    /\ ov_lstate = "waiting"
    /\ ov_cur = 0
    /\ ov_sent = 0

OverlapExample == OverlapInit

\* _async_setup: the latest version is read, the initial fetch is made and
\* the callback is registered; when the setup raises, nothing is registered.
OvSetup(c) ==
    /\ ~ov_reg[c]
    /\ ov_latest[c] = Epoch
    /\ \E l \in Versions : \E r \in FetchResults :
        /\ ov_latest' = [ov_latest EXCEPT ![c] = l]
        /\ IF r = "ok"
              THEN ov_data' = [ov_data EXCEPT ![c] = l] /\ ov_reg' = [ov_reg EXCEPT ![c] = TRUE]
              ELSE IF r = "NotFoundError" /\ c = "manual"
              THEN ov_data' = [ov_data EXCEPT ![c] = None] /\ ov_reg' = [ov_reg EXCEPT ![c] = TRUE]
              ELSE UNCHANGED <<ov_data, ov_reg>>
    /\ UNCHANGED <<ov_inv, ov_lstate, ov_cur, ov_sent>>
    /\ UNCHANGED notOverlap

\* A callback that is in the table from the construction of its coordinator.
RegisteredFromConstruction(reg, c) == TRUE

\* self._callbacks[dataset].values(): the callback of c is in the table
\* once set_callback has run, at the end of the setup of c.
Registered(reg, c) == reg[c]

\* The invocation of the callback of c with an event of version v, up to
\* its first await.
Started(c, v) ==
    IF ~Registered(ov_reg, c) THEN NoInvocation
    ELSE IF AlreadyGot(c, v, ov_latest[c]) THEN Ended("returned")
    ELSE [pc |-> LoopTop(c), v |-> v, attempt |-> 0]

\* The invocations of message n that have not ended.
Pending(inv, n) == {c \in Coordinators : inv[c][n].pc \in {"sleep", "fetch"}}

\* async for message in c.messages: await self.handle_message(message), up
\* to the await of gather: every registered callback is invoked.
OvHandle ==
    /\ ov_lstate = "waiting"
    /\ ov_sent < MaxOvMsg
    /\ ov_sent' = ov_sent + 1
    /\ ov_cur' = ov_sent + 1
    /\ \E v \in Versions :
        LET inv == [c \in Coordinators |-> [ov_inv[c] EXCEPT ![ov_sent + 1] = Started(c, v)]]
        IN /\ ov_inv' = inv
           /\ ov_lstate' = IF Pending(inv, ov_sent + 1) = {} THEN "waiting" ELSE "handling"
    /\ UNCHANGED <<ov_reg, ov_latest, ov_data>>
    /\ UNCHANGED notOverlap

\* A loop that does not count its iterations.
NextAttemptUncounted(k) == k

\* for _ in range(3): the iteration that follows k iterations.
NextAttempt(k) == k + 1

\* await asyncio.sleep(15) returns in the invocation of c for message n.
OvSleepDone(c, n) ==
    /\ ov_inv[c][n].pc = "sleep"
    /\ ov_inv' = [ov_inv EXCEPT ![c][n] = [@ EXCEPT !.pc = "fetch", !.attempt = NextAttempt(@)]]
    /\ UNCHANGED <<ov_reg, ov_latest, ov_data, ov_lstate, ov_cur, ov_sent>>
    /\ UNCHANGED notOverlap

\* How the invocation goes on after a fetch with result r on attempt k.
AfterFetch(r, k) ==
    IF r = "ok" THEN "returned"
    ELSE IF Retried(r) THEN (IF k < Attempts THEN "sleep" ELSE "returned")
    ELSE "raised"

\* A gather that cancels the other awaitables when one raises.
GatheredCancelling(inv, c, n, how) ==
    IF how = "raised"
       THEN [d \in Coordinators |->
                [inv[d] EXCEPT ![n] = IF d # c /\ @.pc \in {"sleep", "fetch"}
                                         THEN Ended("cancelled") ELSE @]]
       ELSE inv

\* asyncio.gather(*[cb(event) ...]) without return_exceptions, when the
\* invocation of c for message n goes on as how: the other awaitables are
\* left as they are, also when this one raised.
Gathered(inv, c, n, how) == inv

\* The fetch of the invocation of c for message n returns or raises.  When
\* the invocation ends and handle_message is awaiting it: gather passes an
\* exception on at once, leaving the other invocations running, and
\* returns when the last invocation has returned.
OvFetchDone(c, n) ==
    /\ ov_inv[c][n].pc = "fetch"
    /\ \E r \in FetchResults :
        LET how == AfterFetch(r, ov_inv[c][n].attempt)
            inv == Gathered([ov_inv EXCEPT ![c][n] =
                       IF how = "sleep" THEN [@ EXCEPT !.pc = LoopTop(c)] ELSE Ended(how)],
                            c, n, how)
        IN /\ ov_latest' = IF RecordsVersion(c, r)
                              THEN AssignLatest(ov_latest, c, ov_inv[c][n].v)
                              ELSE ov_latest
           /\ ov_data' = [ov_data EXCEPT ![c] = IF r = "ok" THEN ov_inv[c][n].v ELSE @]
           /\ ov_inv' = inv
           /\ ov_lstate' = IF ov_lstate = "handling" /\ ov_cur = n
                              THEN IF how = "raised" THEN OnException("callback")
                                   ELSE IF Pending(inv, n) = {} THEN "waiting"
                                   ELSE "handling"
                              ELSE ov_lstate
    /\ UNCHANGED <<ov_reg, ov_cur, ov_sent>>
    /\ UNCHANGED notOverlap

\* await asyncio.sleep(30) returns; the next iteration of while True
\* connects, subscribes and waits for messages.
OvBackoffDone ==
    /\ ov_lstate = "backoff"
    /\ ov_lstate' = "waiting"
    /\ UNCHANGED <<ov_reg, ov_latest, ov_data, ov_inv, ov_cur, ov_sent>>
    /\ UNCHANGED notOverlap

OverlapNext ==
    \/ \E c \in Coordinators : OvSetup(c)
    \/ OvHandle
    \/ \E c \in Coordinators : \E n \in OvMessages : OvSleepDone(c, n)
    \/ \E c \in Coordinators : \E n \in OvMessages : OvFetchDone(c, n)
    \/ OvBackoffDone

Init == CoordInit /\ ListenerInit /\ CameraInit /\ TilesInit /\ EventExample /\ ClosestExample /\ PollExample /\ TestExample /\ PrepExample /\ ColdExample /\ OverlapExample

\* The initial states of SpecEvent: any event of Filenames, delivered to
\* either variant.
InitEvent ==
    CoordInit /\ ListenerInit /\ CameraInit /\ TilesInit /\ EventInit /\ ClosestExample /\ PollExample /\ TestExample /\ PrepExample /\ ColdExample /\ OverlapExample

\* The initial states of SpecClosest: a call with any list of CoverageLists.
InitClosest ==
    CoordInit /\ ListenerInit /\ CameraInit /\ TilesInit /\ EventExample /\ ClosestInit /\ PollExample /\ TestExample /\ PrepExample /\ ColdExample /\ OverlapExample

\* The initial states of SpecPoll: an update with any series of
\* HourlySeries at any time of PollNows.
InitPoll ==
    CoordInit /\ ListenerInit /\ CameraInit /\ TilesInit /\ EventExample /\ ClosestExample /\ PollInit /\ TestExample /\ PrepExample /\ ColdExample /\ OverlapExample

\* The initial states of SpecTest: a call with any answers of the broker.
InitTest ==
    CoordInit /\ ListenerInit /\ CameraInit /\ TilesInit /\ EventExample /\ ClosestExample /\ PollExample /\ TestInit /\ PrepExample /\ ColdExample /\ OverlapExample

\* The initial states of SpecPrep: a call with any list of PrepLists.
InitPrep ==
    CoordInit /\ ListenerInit /\ CameraInit /\ TilesInit /\ EventExample /\ ClosestExample /\ PollExample /\ TestExample /\ PrepInit /\ ColdExample /\ OverlapExample

\* The initial states of SpecCold: a first call at any time of ColdNows.
InitCold ==
    CoordInit /\ ListenerInit /\ CameraInit /\ TilesInit /\ EventExample /\ ClosestExample /\ PollExample /\ TestExample /\ PrepExample /\ ColdInit /\ OverlapExample

SpecCoord == Init /\ [][CoordNext]_vars

SpecListener == Init /\ [][ListenerNext]_vars

\* The timer of the backoff sleep fires.
SpecListenerFair == SpecListener /\ WF_vars(BackoffDone)

SpecCamera == Init /\ [][CameraNext]_vars

\* Every tile fetch returns or raises in the end (the requests of the
\* session time out), and a task woken by notify_all is run by the loop.
SpecCameraFair ==
    /\ SpecCamera
    /\ \A c \in Callers : WF_vars(RetrieveOk(c) \/ RetrieveFail(c))
    /\ \A c \in Callers : WF_vars(WokenReturn(c))

SpecTiles == Init /\ [][TilesNext]_vars

SpecEvent == InitEvent /\ [][EventNext]_vars

SpecClosest == InitClosest /\ [][ClosestNext]_vars

SpecPoll == InitPoll /\ [][PollNext]_vars

SpecTest == InitTest /\ [][TestNext]_vars

SpecPrep == InitPrep /\ [][PrepNext]_vars

SpecCold == InitCold /\ [][ColdNext]_vars

SpecOverlap == Init /\ [][OverlapNext]_vars

\* Every delay of a callback and of the listener ends, and every upstream
\* fetch returns or raises.
SpecOverlapFair ==
    /\ SpecOverlap
    /\ \A c \in Coordinators : \A n \in OvMessages :
           WF_vars(OvSleepDone(c, n)) /\ WF_vars(OvFetchDone(c, n))
    /\ WF_vars(OvBackoffDone)

(***************************************************************************)
(* Properties of the refresh coordinators (checked under SpecCoord)        *)
(***************************************************************************)

\* The callback of c has returned or raised.
Returned(c) == cpc[c] = "done"

\* The callback touched nothing of the coordinator and issued no fetch.
NoOp(c) ==
    /\ outcome[c] = "skipped"
    /\ attempt[c] = 0
    /\ latest[c] = pre[c].latest
    /\ data[c] = pre[c].data

\* C1, as stated: in both variants an event whose version is lower than or
\* equal to the version already accepted causes no fetch and no state change.
C1_LowerOrEqualIsNoOp ==
    \A c \in Coordinators :
        (Returned(c) /\ cver[c] <= pre[c].latest) => NoOp(c)

\* C1, amended: an event with a strictly lower version is a no-op in both
\* variants and one with an equal version is a no-op in the Manual variant;
\* the Auto variant fetches an equal version again.  With every fetch
\* succeeding, the versions [5, 3, 5, 7] cause exactly two fetches in the
\* Manual variant and three (5, 5, 7) in the Auto variant.
C1_AlreadyGotIsNoOp ==
    \A c \in Coordinators :
        Returned(c) =>
            /\ (cver[c] < pre[c].latest) => NoOp(c)
            /\ (cver[c] = pre[c].latest /\ c = "manual") => NoOp(c)
            /\ (cver[c] = pre[c].latest /\ c = "auto") =>
                   (outcome[c] # "skipped" /\ attempt[c] >= 1)
            /\ (cver[c] > pre[c].latest) => (outcome[c] # "skipped" /\ attempt[c] >= 1)
            /\ (seen[c] = ExampleSeq) => nfetch[c] = (IF c = "manual" THEN 2 ELSE 3)

\* Witness of C1: the Manual coordinator has handled [5, 3, 5, 7] with two
\* fetches, the last event handled being a fetched one.
C1_Witness ==
    /\ Returned("manual")
    /\ seen["manual"] = ExampleSeq
    /\ nfetch["manual"] = 2
    /\ outcome["manual"] = "success"

\* The last fetch of the invocation returned to the callback without raising.
FetchSucceeded(c) ==
    \/ fres[c] = "ok"
    \/ fres[c] = "empty" /\ c = "auto"

\* C2: when the fetch succeeds on attempt k after k-1 attempts that raised
\* NotFoundError or ServerError, exactly k attempts were made, the version
\* of the event is recorded, the fetched data is published and there is no
\* warning or exhaustion.
C2_SuccessOnAttemptK ==
    \A c \in Coordinators :
        (Returned(c) /\ FetchSucceeded(c)) =>
            /\ attempt[c] = fails[c] + 1
            /\ attempt[c] <= Attempts
            /\ latest[c] = cver[c]
            /\ data[c] = cver[c]
            /\ outcome[c] = "success"
            /\ ~warned[c]

\* C3: a fetch that raises anything but NotFoundError or ServerError ends
\* the invocation at that attempt (attempt 1 when it is the first failure):
\* the error leaves the callback, the version and the published data are
\* those of before the notification.
C3_OtherErrorAborts ==
    \A c \in Coordinators :
        (Returned(c) /\ fres[c] # "none" /\ ~FetchSucceeded(c) /\ fres[c] \notin Retryable) =>
            /\ attempt[c] = fails[c] + 1
            /\ outcome[c] \in {"InvalidRequest", "TokenInvalid", "IndexError"}
            /\ ~warned[c]
            /\ latest[c] = pre[c].latest
            /\ data[c] = pre[c].data

\* Witness of C3: InvalidRequest on attempt 1 of a coordinator that had
\* published data.
C3_Witness ==
    \E c \in Coordinators :
        /\ Returned(c)
        /\ fres[c] = "InvalidRequest"
        /\ attempt[c] = 1
        /\ pre[c].data # None

\* C4: when all three attempts raised NotFoundError or ServerError the
\* callback returns normally with the warning logged, version and published
\* data are those of before the notification, and the same version is still
\* not "already got".
C4_ExhaustionKeepsState ==
    \A c \in Coordinators :
        (Returned(c) /\ fails[c] = Attempts) =>
            /\ attempt[c] = Attempts
            /\ outcome[c] = "exhausted"
            /\ warned[c]
            /\ latest[c] = pre[c].latest
            /\ data[c] = pre[c].data
            /\ ~AlreadyGot(c, cver[c], latest[c])

\* Witness of C4: an exhausted invocation of a coordinator that had
\* published data.
C4_Witness ==
    \E c \in Coordinators :
        /\ Returned(c)
        /\ fails[c] = Attempts
        /\ outcome[c] = "exhausted"
        /\ pre[c].data # None

\* C19: once a coordinator has published a snapshot, no step leaves it
\* without one, and the snapshot changes only in a step in which a fetch
\* succeeded, to the data fetched for the version of the event.
C19_StaleOverNoData ==
    [][\A c \in Coordinators :
          (data[c] # None) =>
              /\ data'[c] # None
              /\ (data'[c] # data[c]) =>
                     (fres'[c] = "ok" /\ outcome'[c] = "success" /\ data'[c] = cver[c])]_vars

\* Witness of C19: a coordinator that had published a snapshot has gone
\* through three attempts ending in ServerError for a newer version and
\* still holds the snapshot.
C19_Witness ==
    \E c \in Coordinators :
        /\ Returned(c)
        /\ outcome[c] = "exhausted"
        /\ fres[c] = "ServerError"
        /\ data[c] # None
        /\ data[c] = pre[c].data
        /\ cver[c] > data[c]

\* C26: in the handling of one notification a coordinator issues at most 3
\* fetches, a fetch is issued only by the step that ends a grace delay, and
\* a grace delay is started only when a notification is accepted or when
\* the fetch before it has ended: every fetch, the first included, has a
\* whole grace delay between it and the step before.
C26_GraceDelayBeforeEveryFetch ==
    /\ [](\A c \in Coordinators : attempt[c] <= Attempts)
    /\ [][\A c \in Coordinators :
             /\ (cpc'[c] = "fetch" /\ (cpc[c] # "fetch" \/ attempt'[c] # attempt[c])) =>
                    (cpc[c] = "sleep" /\ attempt'[c] = attempt[c] + 1)
             /\ (cpc[c] = "fetch" /\ cpc'[c] # "fetch") => cpc'[c] \in {"sleep", "done"}
             /\ attempt'[c] # attempt[c] =>
                    \/ cpc[c] = "sleep" /\ cpc'[c] = "fetch" /\ attempt'[c] = attempt[c] + 1
                    \/ cpc[c] \in {"idle", "done"} /\ attempt'[c] = 0
             /\ (cpc'[c] = "sleep" /\ cpc[c] # "sleep") =>
                    \/ cpc[c] \in {"idle", "done"} /\ attempt'[c] = 0
                    \/ cpc[c] = "fetch" /\ fres'[c] \in Retryable]_vars

\* Witness of C26: the third fetch of a notification is in flight, after
\* three grace delays and two failed attempts.
C26_Witness ==
    \E c \in Coordinators :
        cpc[c] = "fetch" /\ attempt[c] = Attempts /\ fails[c] = Attempts - 1

\* C25: a step of the callback of one coordinator (the skip test, the end
\* of a grace delay, the end of a fetch with any result) leaves the
\* last known version and the published data of every other coordinator
\* as they were, also while the other coordinator is handling the same
\* notification.
C25_NoInterference ==
    [][\A c \in Coordinators :
           (Notify(c) \/ SleepDone(c) \/ FetchDone(c)) =>
               \A d \in Coordinators \ {c} : latest'[d] = latest[d] /\ data'[d] = data[d]]_vars

\* Witness of C25: one coordinator has fetched and recorded a version
\* while the other one, still in its grace delay or its fetch for a
\* notification, has the version and the data it had before.
C25_Witness ==
    \E c \in Coordinators : \E d \in Coordinators \ {c} :
        /\ cpc[c] = "done" /\ outcome[c] = "success" /\ latest[c] = cver[c]
        /\ cpc[d] \in {"sleep", "fetch"}
        /\ latest[d] = pre[d].latest /\ data[d] = pre[d].data
        /\ latest[d] # latest[c]

\* C32: once the setup of a coordinator is over, whenever its last known
\* version is a version V other than the epoch, the data it has published
\* is the result of a successful fetch for V.
C32_VersionAndDataTogether ==
    \A c \in Coordinators :
        (cpc[c] \in {"idle", "sleep", "fetch", "done"} /\ latest[c] # Epoch) =>
            data[c] = latest[c]

(***************************************************************************)
(* Properties of the coordinators under the listener (checked under        *)
(* SpecOverlap)                                                            *)
(***************************************************************************)

\* C29: the last known version of every coordinator is the epoch at the
\* start and no step of setup, of the listener or of an invocation of the
\* callback lowers it; a step that changes it raises it.
C29_VersionNeverDecreases ==
    /\ \A c \in Coordinators : ov_latest[c] = Epoch
    /\ [][\A c \in Coordinators :
             /\ ov_latest'[c] >= ov_latest[c]
             /\ (c = "manual" /\ ov_latest'[c] # ov_latest[c]) => ov_latest'[c] > ov_latest[c]]_vars

\* C33: for each coordinator at most one invocation of its notification
\* callback is in progress at any moment, also after a sibling callback
\* raised and the listener went through backoff and reconnect.
C33_OneInvocationPerCoordinator ==
    \A c \in Coordinators : \A n \in OvMessages : \A m \in OvMessages :
        (ov_inv[c][n].pc \in {"sleep", "fetch"} /\ ov_inv[c][m].pc \in {"sleep", "fetch"}) => n = m

\* The invocations in progress.
InProgress == {cn \in Coordinators \X OvMessages : ov_inv[cn[1]][cn[2]].pc \in {"sleep", "fetch"}}

\* C34: when a callback raises while the listener handles its message, the
\* other invocations are left as they are (a step changes at most one
\* invocation in progress, its own, and none ends other than by returning
\* or raising), and the listener goes to its fixed delay and from there
\* back to connecting and waiting for messages.
C34_RaiseLeavesSiblingsRunning ==
    [][/\ \A cn \in InProgress : \A dm \in InProgress :
              (ov_inv'[cn[1]][cn[2]] # ov_inv[cn[1]][cn[2]] /\ ov_inv'[dm[1]][dm[2]] # ov_inv[dm[1]][dm[2]])
                  => cn = dm
       /\ \A cn \in InProgress :
              ov_inv'[cn[1]][cn[2]].pc \in {"sleep", "fetch", "returned", "raised"}
       /\ \A cn \in InProgress :
              (ov_inv'[cn[1]][cn[2]].pc = "raised" /\ ov_lstate = "handling" /\ ov_cur = cn[2])
                  => ov_lstate' = "backoff"
       /\ ov_lstate = "backoff" => ov_lstate' \in {"backoff", "waiting"}]_vars

\* A callback has raised for the current message, the listener is in its
\* delay and the other callback of the message is still fetching.
C34_Witness ==
    \E c \in Coordinators : \E d \in Coordinators \ {c} :
        /\ ov_lstate = "backoff"
        /\ ov_cur \in OvMessages
        /\ ov_inv[c][ov_cur].pc = "raised"
        /\ ov_inv[d][ov_cur].pc = "fetch"

\* C37: every invocation of a notification callback in progress ends, by
\* returning or by raising, and the listener that handles a message gets
\* back to waiting for the next one.
C37_InvocationsTerminate ==
    /\ \A c \in Coordinators : \A n \in OvMessages :
           (ov_inv[c][n].pc \in {"sleep", "fetch"}) ~> (ov_inv[c][n].pc \in {"returned", "raised"})
    /\ (ov_lstate = "handling") ~> (ov_lstate = "waiting")

\* A callback of the first message raised, every invocation of that message
\* has ended, and the listener handles the next message.
C37_Witness ==
    /\ MaxOvMsg >= 2
    /\ ov_cur = 2
    /\ ov_lstate = "handling"
    /\ \E c \in Coordinators : ov_inv[c][1].pc = "raised"
    /\ \A d \in Coordinators : ov_inv[d][1].pc \in {"returned", "raised"}

\* C38: a coordinator is registered only with its last known version set
\* from the metadata, so every invocation of its callback is one of a
\* registered coordinator with a version other than the epoch; a message
\* handled before the registration invokes no callback of the coordinator,
\* neither then nor later, and the registration itself invokes nothing.
C38_RegisteredAfterSetup ==
    [][\A c \in Coordinators :
          /\ ov_reg'[c] => ov_latest'[c] # Epoch
          /\ (~ov_reg[c] /\ ov_reg'[c]) => ov_inv' = ov_inv
          /\ \A n \in OvMessages :
                /\ ov_inv'[c][n].pc # "none" => (ov_reg'[c] /\ ov_latest'[c] # Epoch)
                /\ (n <= ov_sent /\ ov_inv[c][n].pc = "none") => ov_inv'[c][n].pc = "none"]_vars

\* The first message was handled before the coordinator was registered and
\* has invoked nothing on it; the second one, handled after the
\* registration, has invoked its callback.
C38_Witness ==
    /\ MaxOvMsg >= 2
    /\ ov_sent = 2
    /\ \E c \in Coordinators :
          /\ ov_reg[c]
          /\ ov_inv[c][1].pc = "none"
          /\ ov_inv[c][2].pc # "none"

(***************************************************************************)
(* Properties of the camera (checked under SpecCamera)                     *)
(***************************************************************************)

\* C5: two concurrent callers that both arrived with loading false and a
\* refresh needed cause exactly one __retrieve_radar_image call between
\* them (a regeneration that raised is left aside): never two, and exactly
\* one once both have returned.
C5_SingleFlight ==
    \A c \in Callers : \A d \in peers[c] :
        (kres[c] # "raised" /\ kres[d] # "raised") =>
            /\ regens[c] + regens[d] <= 1
            /\ (kpc[c] = "idle" /\ kpc[d] = "idle") => regens[c] + regens[d] = 1

\* C10: a caller that finds loading true under the lock never starts a
\* regeneration of its own; it stays blocked for as long as the
\* regeneration is in progress, and what it returns is the artifact cached
\* when that regeneration finished and woke it (the new one on success,
\* the previous one on failure).
C10_WaiterNeverRegenerates ==
    \A c \in Callers :
        /\ sawLoading[c] =>
               /\ kpc[c] \in {"wait", "woken", "idle"}
               /\ regens[c] = 0
        /\ (kpc[c] = "wait") =>
               (loading /\ \E d \in Callers \ {c} : kpc[d] = "retrieve")
        /\ (sawLoading[c] /\ kpc[c] = "idle") =>
               (kres[c] = "waited" /\ ret[c] = atWake[c])

\* Witness of C10: a caller that waited has returned the new artifact of
\* the regeneration it waited for.
C10_Witness ==
    \E c \in Callers :
        /\ sawLoading[c]
        /\ kpc[c] = "idle"
        /\ kres[c] = "waited"
        /\ ret[c] # None
        /\ \E d \in Callers \ {c} : kres[d] = "regenerated" /\ ret[d] = ret[c]

\* C11: the version recorded for the cached artifact is the reference time
\* its tiles were fetched for: whenever an animation is cached,
\* _last_image_dt equals the ref_time of the regeneration that stored it.
C11_RecordsReferenceTime ==
    last_image # None => last_image_dt = last_image

\* C12: a regeneration that fails on a tile fetch stores nothing and leaves
\* the cached artifact and its version as they were, the error reaches the
\* caller that started it, loading is cleared, and a refresh is still
\* reported as needed right after the failure.
C12_TileFailureAborts ==
    [][\A c \in Callers :
          (kpc[c] = "retrieve" /\ kpc'[c] = "idle" /\ kres'[c] = "raised") =>
              /\ last_image' = last_image
              /\ last_image_dt' = last_image_dt
              /\ ret'[c] = ret[c]
              /\ ~loading'
              /\ needs_refresh']_vars

\* C14: a refresh is needed exactly when _last_modified or _last_image_dt is
\* None or _last_modified is strictly newer than _last_image_dt; a call
\* made when no refresh is needed returns the cached artifact in the same
\* step, without touching loading, without waiting and without starting a
\* capabilities call or a regeneration; a call made when one is needed does
\* not return in that step.
C14_RefreshNeededTest ==
    /\ [](needs_refresh <=>
            (last_modified = None \/ last_image_dt = None \/ last_modified > last_image_dt))
    /\ [][(calls' = calls + 1 /\ ~needs_refresh) =>
            /\ \E c \in Callers :
                   /\ kpc[c] = "idle"
                   /\ kres'[c] = "cached"
                   /\ ret'[c] = last_image
                   /\ regens'[c] = 0
            /\ kpc' = kpc
            /\ loading' = loading
            /\ ref' = ref
            /\ <<last_image, last_image_dt, last_modified>>' =
                   <<last_image, last_image_dt, last_modified>>]_vars
    /\ [][(calls' = calls + 1 /\ needs_refresh) =>
            \E c \in Callers :
                /\ kpc[c] = "idle"
                /\ kpc'[c] \in {"capabilities", "wait", "retrieve"}]_vars

\* Witness of C14: a call has returned the cached animation on the fast
\* path.
C14_Witness ==
    \E c \in Callers :
        /\ kpc[c] = "idle"
        /\ kres[c] = "cached"
        /\ ret[c] # None
        /\ ret[c] = last_image
        /\ ~needs_refresh

\* C28: loading is true exactly while some caller is regenerating, callers
\* wait on the condition only meanwhile, the step that ends a regeneration
\* (returning or raising) clears loading and wakes every waiter, every
\* regeneration ends and every waiter returns, and a call made when
\* nothing is loading and a refresh is needed starts a regeneration.
C28_LoadingClearedWaitersWoken ==
    /\ [](/\ loading <=> (\E c \in Callers : kpc[c] = "retrieve")
          /\ \A c \in Callers : kpc[c] = "wait" => loading)
    /\ [][/\ \A c \in Callers :
                 (kpc[c] = "retrieve" /\ kpc'[c] # "retrieve") =>
                     /\ ~loading'
                     /\ \A d \in Callers : kpc[d] = "wait" => kpc'[d] = "woken"
          /\ \A c \in Callers :
                 (Call(c) /\ ~loading /\ needs_refresh /\ last_modified # None) =>
                     (kpc'[c] = "retrieve" /\ loading')]_vars
    /\ loading ~> ~loading
    /\ \A c \in Callers : (kpc[c] \in {"wait", "woken"}) ~> (kpc[c] = "idle")

\* Witness of C28: a regeneration raised and cleared loading, and a later
\* call of another caller has started a new regeneration.
C28_Witness ==
    \E c \in Callers : \E d \in Callers \ {c} :
        /\ kpc[d] = "idle" /\ kres[d] = "raised" /\ regens[d] = 1
        /\ kpc[c] = "retrieve" /\ loading
        /\ peers[c] = {}

\* C30: once the camera holds an animation it holds one ever after, and
\* the animation changes only in the step that ends a regeneration with
\* success, to the animation that regeneration built.
C30_ArtifactStaysServable ==
    [][/\ last_image # None => last_image' # None
       /\ last_image' # last_image =>
              \E c \in Callers :
                  /\ kpc[c] = "retrieve" /\ kpc'[c] = "idle"
                  /\ kres'[c] = "regenerated"
                  /\ last_image' = ref[c]]_vars

\* Witness of C30: one caller regenerated the animation; after a radar
\* notification for another version the call of a second caller, made
\* when the first had returned, regenerated for that version and raised:
\* the animation of the first is still there.
C30_Witness ==
    \E c \in Callers : \E d \in Callers \ {c} :
        /\ kpc[c] = "idle" /\ kres[c] = "raised" /\ regens[c] = 1
        /\ kpc[d] = "idle" /\ kres[d] = "regenerated"
        /\ peers[c] = {} /\ peers[d] = {}
        /\ ~loading
        /\ last_image # None
        /\ last_image = last_image_dt
        /\ last_image = ref[d]
        /\ ref[c] # last_image
        /\ last_modified = ref[c]

\* C31: at every moment at most one caller is between setting loading and
\* clearing it (at most one __retrieve_radar_image call is in progress),
\* and loading is true for as long as it is.
C31_MutualExclusion ==
    /\ \A c \in Callers : \A d \in Callers :
           (kpc[c] = "retrieve" /\ kpc[d] = "retrieve") => c = d
    /\ \A c \in Callers : kpc[c] = "retrieve" => loading

\* Witness of C31: of two callers that both arrived cold and went through
\* the capabilities call, one is regenerating and the other one waits.
C31_Witness ==
    \E c \in Callers : \E d \in Callers \ {c} :
        /\ kpc[c] = "retrieve"
        /\ kpc[d] = "wait"
        /\ c \in peers[d] \/ d \in peers[c]
        /\ last_image = None

\* C36: the latest known source version of the camera never decreases once
\* set, for any order of radar notifications and camera calls.
C36_LastModifiedNeverDecreases ==
    [][last_modified # None => last_modified' >= last_modified]_vars

(***************************************************************************)
(* Properties of the listener (checked under SpecListener)                 *)
(***************************************************************************)

\* C6: handling a message with dataset name X invokes every callback that
\* is registered under X exactly once with that event, and nothing else.
C6_Demultiplex ==
    (cur # NoMsg /\ regAt.known) =>
        /\ Len(launched) = Cardinality(DOMAIN regAt.reg)
        /\ \A id \in DOMAIN regAt.reg :
               Cardinality({k \in DOMAIN launched :
                   launched[k] = [msg |-> cur.n, id |-> id, cb |-> regAt.reg[id]]}) = 1

\* Witness of C6: a message of the observations dataset has invoked the two
\* callbacks registered under it while another callback is registered
\* under radar_forecast.
C6_Witness ==
    /\ cur.dataset = "obs"
    /\ Len(launched) = 2
    /\ DOMAIN callbacks["radar_forecast"] # {}

\* C7: run() stops only by cancellation, and every backoff (after an
\* MqttError or any other exception) is followed by a new client and a new
\* connection attempt unless the task is cancelled first.
C7_NeverTerminates ==
    /\ [](lstate = "stopped" => cancelled)
    /\ [][lstate = "backoff" /\ lstate' = "connecting" => client' = client + 1]_vars
    /\ (lstate = "backoff") ~> (lstate = "connecting" \/ cancelled)

\* Witness of C7: after an exception raised by a callback the listener is
\* subscribed again on a new client.
C7_Witness ==
    /\ lstate = "waiting"
    /\ client > 1
    /\ errCause = "callback"
    /\ subscribed = NTopics

\* C8: back-pressure: every callback still running belongs to the message
\* handled last, so that the handling of a message never starts while a
\* callback of an earlier message is running.
C8_BackPressure ==
    \A t \in running : t.msg = cur.n

\* C9: a message whose dataset has no registered callbacks (an empty table,
\* or a name that is not a key of the table) invokes nothing and
\* handle_message returns normally.
C9_DroppedSilently ==
    (cur # NoMsg /\ (~regAt.known \/ DOMAIN regAt.reg = {})) =>
        /\ launched = <<>>
        /\ curResult = "returned"

\* C15: every dataset holds, for each identifier ever registered under it,
\* exactly the callback of the latest set_callback call with that
\* identifier, and a message invokes one callback per identifier however
\* often the identifier was registered.
C15_RegistrationIdempotent ==
    /\ callbacks = lastReg
    /\ (cur # NoMsg /\ regAt.known) =>
           /\ Len(launched) = Cardinality(DOMAIN regAt.reg)
           /\ \A id \in DOMAIN regAt.reg :
                  Cardinality({k \in DOMAIN launched : launched[k].id = id}) = 1

\* Witness of C15: an identifier that was invoked with one callback for an
\* earlier message (the invocation still runs) was registered again with
\* another callback, and the next message invoked it once, with the new
\* callback.
C15_Witness ==
    /\ regAt.known
    /\ \E t \in running :
           /\ t.msg < cur.n
           /\ t.id \in DOMAIN regAt.reg
           /\ t.cb # regAt.reg[t.id]
           /\ Cardinality({k \in DOMAIN launched : launched[k].id = t.id}) = 1
           /\ \E k \in DOMAIN launched :
                  launched[k] = [msg |-> cur.n, id |-> t.id, cb |-> lastReg[cur.dataset][t.id]]

\* The states of the listener inside `async with self._setup_client()`.
Connected == {"connecting", "subscribing", "waiting", "handling"}

\* C27: every error that ends a connection takes the listener to the
\* backoff delay, a new connection attempt is made only by the step that
\* ends a backoff delay and with a client made for it (the next one), and a
\* message is handled only on a connection on which every topic of TOPICS
\* has been subscribed.
C27_BackoffFreshClientSubscribeAll ==
    /\ [](lstate \in {"waiting", "handling"} => subscribed = NTopics)
    /\ [][/\ (lstate \in Connected /\ lstate' \notin Connected) =>
                  (lstate' = "backoff" \/ cancelled')
          /\ (lstate = "backoff" /\ lstate' # "backoff") =>
                  (lstate' = "connecting" \/ cancelled')
          /\ (lstate' = "connecting" /\ lstate # "connecting") =>
                  (lstate = "backoff" /\ client' = client + 1)
          /\ client' # client => (lstate = "backoff" /\ lstate' = "connecting")
          /\ cur' # cur => (lstate = "waiting" /\ subscribed = NTopics)]_vars

\* Witness of C27: after an error and its backoff the second client has
\* connected and subscribed to every topic, and a message is being handled.
C27_Witness ==
    /\ client = 2
    /\ errCause # "none"
    /\ lstate = "handling"
    /\ subscribed = NTopics

(***************************************************************************)
(* Properties of the tile fetches (checked under SpecTiles)                *)
(***************************************************************************)

\* C13: never more than 5 requests are inside the semaphore of the WMS
\* client; every request that left, by return or by raise, gave its permit
\* back, so permits left plus requests in flight is always 5 and all 5 are
\* available once no request is in flight or waiting.
C13_AtMostFiveInFlight ==
    /\ Cardinality(inflight) <= Permits
    /\ semaphore >= 0
    /\ semaphore + Cardinality(inflight) = Permits
    /\ (inflight = {} /\ waiters = <<>>) => semaphore = Permits

\* Witness of C13: after a tile fetch raised and with a capabilities
\* request issued, 5 requests are in flight and tile fetches still wait.
C13_Witness ==
    /\ gstate = "raised"
    /\ others > 0
    /\ Cardinality(inflight) = Permits
    /\ waiters # <<>>

\* The number of entries of fetch equal to request r.
Issued(r) == Cardinality({k \in DOMAIN fetch : fetch[k] = r})

\* C17, as stated: one real-time fetch for every 10-minute tick of
\* [T-60, T] and one forecast fetch with reference time T for every
\* 10-minute tick of [T, T+120].
C17_TicksClosedInterval ==
    ref_time # None =>
        /\ \A k \in 0 .. 6 :
               Issued([kind |-> "realtime", time |-> ref_time - k * 10, ref |-> None]) = 1
        /\ \A k \in 0 .. 12 :
               Issued([kind |-> "forecast", time |-> ref_time + k * 10, ref |-> ref_time]) = 1

\* C17, amended: one real-time fetch for every 10-minute tick of [T-60, T)
\* (T-60 .. T-10, six fetches), one forecast fetch with reference time T
\* for every 10-minute tick of [T, T+120] (thirteen fetches), and nothing
\* else: T itself is fetched once, as a forecast tile, 19 fetches in all.
C17_TicksHalfOpen ==
    ref_time # None =>
        /\ \A k \in 1 .. 6 :
               Issued([kind |-> "realtime", time |-> ref_time - k * 10, ref |-> None]) = 1
        /\ \A k \in 0 .. 12 :
               Issued([kind |-> "forecast", time |-> ref_time + k * 10, ref |-> ref_time]) = 1
        /\ Len(fetch) = 19
        /\ \A k \in DOMAIN fetch : fetch[k].kind = "realtime" => fetch[k].time < ref_time

\* Witness of C17: a regeneration has issued its fetches and some have
\* been answered.
C17_Witness ==
    /\ ref_time # None
    /\ gstate = "pending"
    /\ radar_images # <<>>

\* C18: the results gather holds are in strictly increasing time order
\* whichever fetches have completed so far, and when the animation is
\* encoded its frames are in strictly increasing time order, one per
\* fetched tick, from T-60 to T+120.
C18_FramesInTimeOrder ==
    /\ \A k \in 1 .. (Len(radar_images) - 1) : radar_images[k][2] < radar_images[k + 1][2]
    /\ gstate = "returned" =>
           /\ Len(images) = Len(fetch)
           /\ \A k \in 1 .. (Len(images) - 1) : images[k] < images[k + 1]
           /\ images[1] = ref_time - RealtimeWindow
           /\ images[Len(images)] = ref_time + ForecastWindow
           /\ Range(images) = {fetch[k].time : k \in DOMAIN fetch}

\* Witness of C18: an animation was encoded after tile fetches completed in
\* another order than that of their times.
C18_Witness ==
    /\ gstate = "returned"
    /\ overtaken
    /\ Len(images) = 19

\* C35: whenever the loading flag is false (no regeneration is awaiting its
\* gather), no tile fetch of the camera is in flight or waits for or holds a
\* permit of the limiter.
C35_NoTileFetchWhenNotLoading ==
    gstate # "pending" =>
        \A r \in inflight \cup Range(waiters) : r.kind = "other"

(***************************************************************************)
(* Properties of the version of an event (checked under SpecEvent)         *)
(***************************************************************************)

\* C16: the version of an event is the UTC time of the stamp in its
\* filename, whatever its arrival time: the file ...202401151030.nc has
\* version 2024-01-15T10:30Z, and a coordinator (either variant) whose
\* latest version is 2024-01-15T10:20Z does not skip it and fetches with
\* datetime 2024-01-15T10:30:00Z; in general the fetch is for the year,
\* month, day, hour and minute of the stamp.
C16_VersionFromFilename ==
    /\ (filename_datetime # None) =>
           /\ Fields(filename_datetime) =
                  <<Num(SubSeq(ev_filename.stamp, 1, 4)), Num(SubSeq(ev_filename.stamp, 5, 6)),
                    Num(SubSeq(ev_filename.stamp, 7, 8)), Num(SubSeq(ev_filename.stamp, 9, 10)),
                    Num(SubSeq(ev_filename.stamp, 11, 12))>>
           /\ (ev_filename = ExampleFilename) => filename_datetime = 28421910
    /\ (ev_stage = "fetch") => ev_query = ev_filename.stamp \o <<0, 0>>
    /\ (ev_filename = ExampleFilename /\ ev_latest = 28421900 /\ ev_stage # "notified") =>
           /\ ev_stage \in {"sleep", "fetch"}
           /\ (ev_stage = "fetch") => ev_query = <<2, 0, 2, 4, 0, 1, 1, 5, 1, 0, 3, 0, 0, 0>>

\* Witness of C16: the example event, arrived at 10:45, is being fetched by
\* a coordinator whose latest version was 10:20.
C16_Witness ==
    /\ ev_filename = ExampleFilename
    /\ ev_latest = 28421900
    /\ ev_arrival = 28421925
    /\ ev_stage = "fetch"
    /\ ev_query = <<2, 0, 2, 4, 0, 1, 1, 5, 1, 0, 3, 0, 0, 0>>

(***************************************************************************)
(* Properties of closest_coverage (checked under SpecClosest)              *)
(***************************************************************************)

\* C20: for a non-empty list closest_coverage returns an element of the
\* list with its distance, no element of the list is nearer, and every
\* element before it in the list is strictly farther.
C20_ClosestIsFirstMinimum ==
    (coverages # <<>> /\ cc_stage # "called") =>
        /\ cc_stage = "returned"
        /\ \E k \in DOMAIN coverages :
               /\ closest = <<coverages[k], coverages[k].km>>
               /\ \A j \in DOMAIN coverages : coverages[j].km >= coverages[k].km
               /\ \A j \in 1 .. (k - 1) : coverages[j].km > coverages[k].km

\* Witness of C20: of two stations at the same minimal distance, neither
\* the first of the list, the earlier one was returned.
C20_Witness ==
    /\ cc_stage = "returned"
    /\ Len(coverages) = 3
    /\ coverages[1].km > coverages[2].km
    /\ coverages[2].km = coverages[3].km
    /\ closest = <<coverages[2], coverages[2].km>>

(***************************************************************************)
(* Properties of the polling coordinator (checked under SpecPoll)          *)
(***************************************************************************)

\* The subsequence relation: s is t without some of its elements.
RECURSIVE IsSubseq(_, _)
IsSubseq(s, t) ==
    IF s = <<>> THEN TRUE
    ELSE IF t = <<>> THEN FALSE
    ELSE IF Head(s) = Head(t) THEN IsSubseq(Tail(s), Tail(t))
    ELSE IsSubseq(s, Tail(t))

\* C21: after a successful fetch the returned hourly series is a
\* subsequence of the fetched one (original order), every entry of it is at
\* or after the top of the current hour, and every fetched entry at or
\* after the top of the current hour is in it.
C21_PrunedAtTopOfHour ==
    pl_stage = "returned" =>
        LET cutoff == 60 * (pl_now \div 60)
        IN /\ IsSubseq(pl_hourly, pl_fetched)
           /\ \A i \in DOMAIN pl_hourly : pl_hourly[i].dateTime >= cutoff
           /\ \A k \in DOMAIN pl_fetched :
                  pl_fetched[k].dateTime >= cutoff =>
                      \E i \in DOMAIN pl_hourly : pl_hourly[i] = pl_fetched[k]

\* Witness of C21: not at the top of an hour, an entry of the last minute
\* before the hour was removed and the entry of the top of the hour, after
\* it in the list, was kept together with a later one.
C21_Witness ==
    /\ pl_stage = "returned"
    /\ pl_now % 60 # 0
    /\ Len(pl_fetched) = 3
    /\ pl_fetched[1].dateTime = 60 * (pl_now \div 60) - 1
    /\ pl_fetched[2].dateTime = 60 * (pl_now \div 60)
    /\ pl_fetched[3].dateTime > pl_now
    /\ pl_hourly = <<pl_fetched[2], pl_fetched[3]>>

(***************************************************************************)
(* Properties of test_connection (checked under SpecTest)                  *)
(***************************************************************************)

\* C22: once test_connection has ended, it returned True exactly when the
\* connection and the subscription both succeeded, it raised TokenInvalid
\* exactly when the CONNECT was refused with reason code 135, and in every
\* other case (a connect error with another reason code included) it
\* returned False.
C22_ThreeOutcomes ==
    tc_stage \in {"returned", "raised"} =>
        LET ok == tc_connect.kind = "ok" /\ tc_subscribe = "ok"
            rejected == tc_connect.kind = "refused" /\ tc_connect.rc = NotAuthorized
        IN /\ (tc_stage = "returned" /\ tc_result = "True") <=> ok
           /\ (tc_stage = "raised" /\ tc_result = "TokenInvalid") <=> rejected
           /\ (tc_stage = "returned" /\ tc_result = "False") <=> (~ok /\ ~rejected)

(***************************************************************************)
(* Properties of _prepare_data (checked under SpecPrep)                    *)
(***************************************************************************)

\* The coverages of the list carrying the parameter.
Carriers(p) == {k \in DOMAIN pd_coverages : p \in pd_coverages[k].carries}

C24_ColdStartWindow ==
    cs_stage = "chosen" =>
        LET T == cs_last_modified
            now == ((cs_now.day * 24 + cs_now.hour) * 60 + cs_now.minute) * 60 + cs_now.second
            t == ((T.day * 24 + T.hour) * 60 + T.minute) * 60 + T.second
        IN /\ T.hour \in 0 .. 23 /\ T.minute \in 0 .. 59
           /\ T.minute % 5 = 0 /\ T.second = 0
           /\ now - 600 < t
           /\ t <= now - 300

\* Witness of C24: in the minutes 0-4 of the first hour of a day, not on a
\* full minute, 23:55 of the day before was chosen.
C24_Witness ==
    /\ cs_stage = "chosen"
    /\ cs_now.hour = 0 /\ cs_now.minute \in 0 .. 4 /\ cs_now.second # 0
    /\ cs_last_modified = [day |-> cs_now.day - 1, hour |-> 23, minute |-> 55, second |-> 0]

====
